---------------------------- MODULE Spec2Model ----------------------------
(***************************************************************************)
(* A model of the two colour pickers of the repository:                    *)
(*   src/script.js          (ColorUtils + ColorPicker, RGB-centred)        *)
(*   src/unnamed/part_000   (ColorPicker, HSL-centred)                     *)
(*                                                                         *)
(* Numbers.  JavaScript numbers are modelled by integers plus the values   *)
(* NaN and Infinity.  The conversions are computed over exact rationals    *)
(* and rounded as Math.round rounds (half up); the doubles agree with the  *)
(* exact value except, for some inputs, when the exact value lies exactly  *)
(* on a .5 tie.  Text is a sequence of one-character strings, so that      *)
(* parsing and formatting are computed, not assumed.                       *)
(*                                                                         *)
(* Five specifications share the variables:                                *)
(*   Spec    the events of src/script.js, each taken with the run of its   *)
(*           handler,                                                      *)
(*   SpecB   the events of src/unnamed/part_000,                           *)
(*   SpecT   throttle of src/script.js around the handler of one text      *)
(*           field, with the clock and the timer,                          *)
(*   SpecP   the palettes, the eyedropper and the hex field of both pages, *)
(*   SpecF   one call of a conversion, of generateHarmonies, of            *)
(*           contrastRatio or of updateWcagBadge on arguments drawn from   *)
(*           bounded sets.                                                 *)
(***************************************************************************)
EXTENDS Integers, Sequences, FiniteSets, TLC

(***************************************************************************)
(* Bounds of the model                                                     *)
(***************************************************************************)
\* the number of events (edits, drags, key presses) one behaviour holds
MaxEdits == 3

(***************************************************************************)
(* JavaScript numbers and Math                                             *)
(***************************************************************************)
\* NaN: what parseInt returns on text with no leading number (script.js:351)
NaN == -1000000

IsNaN(x) == x = NaN

\* Infinity: what d / 0 gives in rgbToHsl (script.js:40); it is above every
\* number the model computes
Infinity == 1000000

\* Math.max(a, b) and Math.min(a, b): NaN if either is NaN
MathMax(a, b) == IF IsNaN(a) \/ IsNaN(b) THEN NaN ELSE IF a >= b THEN a ELSE b

MathMin(a, b) == IF IsNaN(a) \/ IsNaN(b) THEN NaN ELSE IF a <= b THEN a ELSE b

Max3(a, b, c) == MathMax(a, MathMax(b, c))

Min3(a, b, c) == MathMin(a, MathMin(b, c))

\* Math.round(num / den) for den # 0: the nearest integer, halves up
RoundDiv(num, den) ==
  IF den > 0 THEN (2 * num + den) \div (2 * den)
  ELSE (0 - 2 * num - den) \div (0 - 2 * den)

\* x || 0 on a number: NaN and 0 are falsy
OrZero(x) == IF IsNaN(x) THEN 0 ELSE x

(***************************************************************************)
(* Text: sequences of characters                                           *)
(***************************************************************************)
Digits == <<"0", "1", "2", "3", "4", "5", "6", "7", "8", "9">>

HexDigitsLower == Digits \o <<"a", "b", "c", "d", "e", "f">>

HexDigitsUpper == Digits \o <<"A", "B", "C", "D", "E", "F">>

IsDigit(c) == \E i \in 1..10 : Digits[i] = c

DigitVal(c) == (CHOOSE i \in 1..10 : Digits[i] = c) - 1

IsHexDigit(c) == \E i \in 1..16 : HexDigitsLower[i] = c \/ HexDigitsUpper[i] = c

HexVal(c) == (CHOOSE i \in 1..16 : HexDigitsLower[i] = c \/ HexDigitsUpper[i] = c) - 1

IsSpace(c) == c = " "

\* the text from position i on
Drop(text, i) == SubSeq(text, i, Len(text))

\* the position of the first character at or after i that is not white space
RECURSIVE SkipSpace(_, _)
SkipSpace(text, i) ==
  IF i <= Len(text) /\ IsSpace(text[i]) THEN SkipSpace(text, i + 1) ELSE i

\* the number of digits from position i on
RECURSIVE DigitRun(_, _)
DigitRun(text, i) ==
  IF i <= Len(text) /\ IsDigit(text[i]) THEN 1 + DigitRun(text, i + 1) ELSE 0

\* the value of the n decimal digits from position i on
RECURSIVE DigitsValue(_, _, _, _)
DigitsValue(text, i, n, acc) ==
  IF n = 0 THEN acc
  ELSE DigitsValue(text, i + 1, n - 1, 10 * acc + DigitVal(text[i]))

\* parseInt(text): leading white space, an optional sign, then the longest run
\* of decimal digits; NaN when there is no digit
parseInt(text) ==
  LET i == SkipSpace(text, 1)
      signed == i <= Len(text) /\ text[i] \in {"-", "+"}
      neg == signed /\ text[i] = "-"
      j == IF signed THEN i + 1 ELSE i
      n == DigitRun(text, j)
  IN  IF n = 0 THEN NaN
      ELSE IF neg THEN 0 - DigitsValue(text, j, n, 0)
      ELSE DigitsValue(text, j, n, 0)

\* the decimal digits of n >= 0
RECURSIVE NatToText(_)
NatToText(n) ==
  IF n < 10 THEN <<Digits[n + 1]>>
  ELSE NatToText(n \div 10) \o <<Digits[(n % 10) + 1]>>

\* String(x), as an assignment of a number to input.value stores it
NumToText(x) ==
  IF IsNaN(x) THEN <<"N", "a", "N">>
  ELSE IF x = Infinity THEN <<"I", "n", "f", "i", "n", "i", "t", "y">>
  ELSE IF x < 0 THEN <<"-">> \o NatToText(0 - x)
  ELSE NatToText(x)

\* n.toString(16) for an integer n >= 0
RECURSIVE NatToHex(_)
NatToHex(n) ==
  IF n < 16 THEN <<HexDigitsLower[n + 1]>>
  ELSE NatToHex(n \div 16) \o <<HexDigitsLower[(n % 16) + 1]>>

(***************************************************************************)
(* ColorUtils (src/script.js)                                              *)
(***************************************************************************)
\* what hexToRgb returns for text that is no colour
null == [null |-> TRUE]

RGB(r, g, b) == [r |-> r, g |-> g, b |-> b]

HSL(h, s, l) == [h |-> h, s |-> s, l |-> l]

\* parseInt(two hex digits, 16)
HexPair(text, i) == 16 * HexVal(text[i]) + HexVal(text[i + 1])

\* hexToRgb with the second and the third pair optional, read as 0
hexToRgbShort(hex) ==
  LET body == IF Len(hex) > 0 /\ hex[1] = "#" THEN Drop(hex, 2) ELSE hex
      pair(i) == IF i < Len(body) THEN HexPair(body, i) ELSE 0
  IN  IF Len(body) \in {2, 4, 6} /\ \A i \in 1..Len(body) : IsHexDigit(body[i])
      THEN RGB(pair(1), pair(3), pair(5))
      ELSE null

\* hexToRgb: /^#?([a-f\d]{2})([a-f\d]{2})([a-f\d]{2})$/i
hexToRgb(hex) ==
  LET body == IF Len(hex) > 0 /\ hex[1] = "#" THEN Drop(hex, 2) ELSE hex
  IN  IF Len(body) = 6 /\ \A i \in 1..6 : IsHexDigit(body[i])
      THEN RGB(HexPair(body, 1), HexPair(body, 3), HexPair(body, 5))
      ELSE null

\* toHex without the padding to two digits
toHexUnpadded(n) ==
  IF IsNaN(n) THEN <<"N", "a", "N">>
  ELSE NatToHex(MathMax(0, MathMin(255, n)))

\* toHex of rgbToHex: clamp to 0..255, round, base 16, pad to two digits
toHex(n) ==
  LET hex == IF IsNaN(n) THEN <<"N", "a", "N">>
             ELSE NatToHex(MathMax(0, MathMin(255, n)))
  IN  IF Len(hex) = 1 THEN <<"0">> \o hex ELSE hex

rgbToHex(r, g, b) == <<"#">> \o toHex(r) \o toHex(g) \o toHex(b)

\* rgbToHsl: h, s and l of integer channels, each rounded; NaN on NaN.
\* Channels outside 0..255 whose max and min add up to 0 or to 510 make the
\* divisor of s zero: s is Infinity (for some sums of 510 the doubles leave
\* a divisor of 2^-53 and s is a number above 10^14 instead).
rgbToHsl(r, g, b) ==
  LET max == Max3(r, g, b)
      min == Min3(r, g, b)
      d == max - min
      sum == max + min
      divisor == IF sum > 255 THEN 510 - sum ELSE sum
  IN  IF IsNaN(max) THEN HSL(NaN, NaN, NaN)
      ELSE IF max = min THEN HSL(0, 0, RoundDiv(100 * sum, 510))
      ELSE HSL(
        IF max = r THEN RoundDiv(60 * (g - b) + (IF g < b THEN 360 * d ELSE 0), d)
        ELSE IF max = g THEN RoundDiv(60 * (b - r) + 120 * d, d)
        ELSE RoundDiv(60 * (r - g) + 240 * d, d),
        IF divisor = 0 THEN Infinity ELSE RoundDiv(100 * d, divisor),
        RoundDiv(100 * sum, 510))

\* hue2rgb of hslToRgb, in units of 1/600000: p and q in 1/10000, t in 1/360
hue2rgb(p, q, t) ==
  LET t1 == IF t < 0 THEN t + 360 ELSE t
      t2 == IF t1 > 360 THEN t1 - 360 ELSE t1
  IN  IF t2 < 60 THEN 60 * p + (q - p) * t2
      ELSE IF t2 < 180 THEN 60 * q
      ELSE IF t2 < 240 THEN 60 * p + (q - p) * (240 - t2)
      ELSE 60 * p

\* hslToRgb: the channels of h degrees, s and l per cent; h is never NaN
hslToRgb(h, s, l) ==
  IF IsNaN(s) \/ IsNaN(l) THEN RGB(NaN, NaN, NaN)
  ELSE IF s = 0 THEN
    LET v == RoundDiv(255 * l, 100) IN RGB(v, v, v)
  ELSE
    LET q == IF l < 50 THEN l * (100 + s) ELSE 100 * l + 100 * s - l * s
        p == 200 * l - q
    IN  RGB(RoundDiv(255 * hue2rgb(p, q, h + 120), 600000),
            RoundDiv(255 * hue2rgb(p, q, h), 600000),
            RoundDiv(255 * hue2rgb(p, q, h - 120), 600000))


(***************************************************************************)
(* Contrast (src/script.js:90-105)                                         *)
(***************************************************************************)
\* The per-channel transform of relativeLuminance, c = channel / 255:
\*   c <= 0.03928 ? c / 12.92 : Math.pow((c + 0.055) / 1.055, 2.4)
\* tabulated in units of 1/10^8 for the channels -255..511.
sRgbTable == <<
  -7739938, -7709585, -7679233, -7648880, -7618527, -7588175, -7557822, -7527469, -7497116, -7466764,
  -7436411, -7406058, -7375706, -7345353, -7315000, -7284648, -7254295, -7223942, -7193590, -7163237,
  -7132884, -7102531, -7072179, -7041826, -7011473, -6981121, -6950768, -6920415, -6890063, -6859710,
  -6829357, -6799004, -6768652, -6738299, -6707946, -6677594, -6647241, -6616888, -6586536, -6556183,
  -6525830, -6495477, -6465125, -6434772, -6404419, -6374067, -6343714, -6313361, -6283009, -6252656,
  -6222303, -6191950, -6161598, -6131245, -6100892, -6070540, -6040187, -6009834, -5979482, -5949129,
  -5918776, -5888423, -5858071, -5827718, -5797365, -5767013, -5736660, -5706307, -5675955, -5645602,
  -5615249, -5584896, -5554544, -5524191, -5493838, -5463486, -5433133, -5402780, -5372428, -5342075,
  -5311722, -5281370, -5251017, -5220664, -5190311, -5159959, -5129606, -5099253, -5068901, -5038548,
  -5008195, -4977843, -4947490, -4917137, -4886784, -4856432, -4826079, -4795726, -4765374, -4735021,
  -4704668, -4674316, -4643963, -4613610, -4583257, -4552905, -4522552, -4492199, -4461847, -4431494,
  -4401141, -4370789, -4340436, -4310083, -4279730, -4249378, -4219025, -4188672, -4158320, -4127967,
  -4097614, -4067262, -4036909, -4006556, -3976203, -3945851, -3915498, -3885145, -3854793, -3824440,
  -3794087, -3763735, -3733382, -3703029, -3672677, -3642324, -3611971, -3581618, -3551266, -3520913,
  -3490560, -3460208, -3429855, -3399502, -3369150, -3338797, -3308444, -3278091, -3247739, -3217386,
  -3187033, -3156681, -3126328, -3095975, -3065623, -3035270, -3004917, -2974564, -2944212, -2913859,
  -2883506, -2853154, -2822801, -2792448, -2762096, -2731743, -2701390, -2671037, -2640685, -2610332,
  -2579979, -2549627, -2519274, -2488921, -2458569, -2428216, -2397863, -2367510, -2337158, -2306805,
  -2276452, -2246100, -2215747, -2185394, -2155042, -2124689, -2094336, -2063983, -2033631, -2003278,
  -1972925, -1942573, -1912220, -1881867, -1851515, -1821162, -1790809, -1760457, -1730104, -1699751,
  -1669398, -1639046, -1608693, -1578340, -1547988, -1517635, -1487282, -1456930, -1426577, -1396224,
  -1365871, -1335519, -1305166, -1274813, -1244461, -1214108, -1183755, -1153403, -1123050, -1092697,
  -1062344, -1031992, -1001639, -971286, -940934, -910581, -880228, -849876, -819523, -789170,
  -758817, -728465, -698112, -667759, -637407, -607054, -576701, -546349, -515996, -485643,
  -455290, -424938, -394585, -364232, -333880, -303527, -273174, -242822, -212469, -182116,
  -151763, -121411, -91058, -60705, -30353, 0, 30353, 60705, 91058, 121411,
  151763, 182116, 212469, 242822, 273174, 303527, 334654, 367651, 402472, 439144,
  477695, 518152, 560539, 604883, 651209, 699541, 749903, 802319, 856813, 913406,
  972122, 1032982, 1096009, 1161225, 1228649, 1298303, 1370208, 1444384, 1520851, 1599629,
  1680738, 1764195, 1850022, 1938236, 2028856, 2121901, 2217388, 2315337, 2415763, 2518686,
  2624122, 2732089, 2842604, 2955683, 3071344, 3189603, 3310477, 3433981, 3560131, 3688945,
  3820437, 3954624, 4091520, 4231141, 4373503, 4518620, 4666509, 4817182, 4970657, 5126946,
  5286065, 5448028, 5612849, 5780543, 5951124, 6124605, 6301002, 6480327, 6662594, 6847817,
  7036010, 7227185, 7421357, 7618538, 7818742, 8021982, 8228271, 8437621, 8650046, 8865559,
  9084171, 9305896, 9530747, 9758735, 9989873, 10224173, 10461648, 10702310, 10946171, 11193243,
  11443537, 11697067, 11953843, 12213877, 12477182, 12743768, 13013648, 13286832, 13563333, 13843162,
  14126329, 14412847, 14702727, 14995979, 15292615, 15592646, 15896084, 16202938, 16513219, 16826940,
  17144110, 17464740, 17788842, 18116424, 18447499, 18782077, 19120168, 19461783, 19806932, 20155625,
  20507874, 20863687, 21223076, 21586050, 21952620, 22322796, 22696587, 23074005, 23455058, 23839757,
  24228112, 24620133, 25015828, 25415209, 25818285, 26225066, 26635560, 27049779, 27467731, 27889426,
  28314874, 28744084, 29177065, 29613827, 30054379, 30498731, 30946892, 31398871, 31854678, 32314321,
  32777810, 33245154, 33716362, 34191442, 34670406, 35153260, 35640014, 36130678, 36625260, 37123768,
  37626212, 38132601, 38642943, 39157248, 39675523, 40197778, 40724021, 41254261, 41788507, 42326767,
  42869050, 43415364, 43965717, 44520119, 45078578, 45641102, 46207700, 46778380, 47353150, 47932018,
  48514994, 49102085, 49693300, 50288646, 50888132, 51491767, 52099557, 52711513, 53327640, 53947949,
  54572446, 55201140, 55834039, 56471151, 57112483, 57758044, 58407842, 59061884, 59720179, 60382734,
  61049557, 61720656, 62396039, 63075714, 63759687, 64447968, 65140564, 65837482, 66538730, 67244316,
  67954247, 68668531, 69387176, 70110189, 70837578, 71569350, 72305513, 73046074, 73791041, 74540421,
  75294222, 76052450, 76815115, 77582222, 78353779, 79129794, 79910274, 80695226, 81484657, 82278575,
  83076988, 83879901, 84687323, 85499261, 86315721, 87136712, 87962240, 88792312, 89626935, 90466117,
  91309865, 92158186, 93011086, 93868573, 94730654, 95597335, 96468625, 97344529, 98225055, 99110210,
  100000000, 100894433, 101793515, 102697254, 103605655, 104518727, 105436475, 106358908, 107286030, 108217850,
  109154374, 110095609, 111041561, 111992238, 112947645, 113907791, 114872680, 115842321, 116816719, 117795882,
  118779816, 119768527, 120762023, 121760309, 122763393, 123771281, 124783979, 125801494, 126823833, 127851002,
  128883007, 129919856, 130961554, 132008108, 133059525, 134115810, 135176971, 136243013, 137313944, 138389768,
  139470494, 140556127, 141646674, 142742140, 143842533, 144947858, 146058122, 147173331, 148293492, 149418610,
  150548692, 151683744, 152823772, 153968783, 155118783, 156273777, 157433773, 158598776, 159768793, 160943829,
  162123891, 163308985, 164499117, 165694292, 166894518, 168099801, 169310145, 170525558, 171746045, 172971613,
  174202267, 175438014, 176678859, 177924809, 179175869, 180432045, 181693344, 182959772, 184231333, 185508035,
  186789883, 188076883, 189369041, 190666362, 191968854, 193276521, 194589369, 195907405, 197230634, 198559062,
  199892694, 201231538, 202575597, 203924879, 205279389, 206639132, 208004115, 209374343, 210749822, 212130558,
  213516557, 214907823, 216304364, 217706184, 219113289, 220525685, 221943378, 223366373, 224794676, 226228292,
  227667228, 229111488, 230561079, 232016006, 233476275, 234941890, 236412859, 237889186, 239370877, 240857937,
  242350372, 243848188, 245351390, 246859984, 248373975, 249893368, 251418169, 252948385, 254484019, 256025078,
  257571566, 259123490, 260680856, 262243667, 263811930, 265385651, 266964834, 268549485, 270139610, 271735213,
  273336300, 274942877, 276554949, 278172521, 279795599, 281424188, 283058293, 284697920, 286343074, 287993759,
  289649983, 291311749, 292979064, 294651932, 296330358, 298014349, 299703908, 301399042, 303099756, 304806055,
  306517944, 308235428, 309958513, 311687204, 313421506, 315161424, 316906963, 318658129, 320414926, 322177361,
  323945437, 325719161, 327498537, 329283571, 331074267, 332870631, 334672667, 336480382, 338293780, 340112865,
  341937644, 343768122, 345604302, 347446191, 349293794, 351147115, 353006160, 354870933, 356741440, 358617686,
  360499675, 362387414, 364280906, 366180156, 368085170, 369995954, 371912510, 373834846, 375762965, 377696872,
  379636574, 381582073, 383533376, 385490488, 387453413, 389422156, 391396722, 393377116, 395363343, 397355408,
  399353316, 401357071, 403366679, 405382144, 407403472, 409430667, 411463733, 413502677, 415547502, 417598214,
  419654817, 421717316, 423785716, 425860022, 427940238, 430026370, 432118422, 434216399, 436320306, 438430148,
  440545928, 442667653, 444795327, 446928954, 449068540, 451214089, 453365606, 455523095, 457686561, 459856010,
  462031445, 464212872, 466400295, 468593719, 470793148, 472998588, 475210042, 477427516, 479651015, 481880542,
  484116103, 486357703, 488605345, 490859034, 493118776, 495384575, 497656435>>

sRgb(c) == sRgbTable[c + 256]

\* floor(w * x / 10000), computed without leaving 32 bits
Weighted(w, x) == w * (x \div 10000) + (w * (x % 10000)) \div 10000

\* relativeLuminance with the three channels added unweighted
relativeLuminanceUnweighted(r, g, b) ==
  IF IsNaN(r) \/ IsNaN(g) \/ IsNaN(b) THEN NaN
  ELSE Weighted(10000, sRgb(r)) + Weighted(10000, sRgb(g)) + Weighted(10000, sRgb(b))

\* relativeLuminance, in units of 1/10^8
relativeLuminance(r, g, b) ==
  IF IsNaN(r) \/ IsNaN(g) \/ IsNaN(b) THEN NaN
  ELSE Weighted(2126, sRgb(r)) + Weighted(7152, sRgb(g)) + Weighted(722, sRgb(b))

\* contrastRatio with the first colour over the second, whichever is lighter
contrastRatioOrdered(rgb1, rgb2) ==
  LET l1 == relativeLuminance(rgb1.r, rgb1.g, rgb1.b)
      l2 == relativeLuminance(rgb2.r, rgb2.g, rgb2.b)
  IN  IF IsNaN(l1) \/ IsNaN(l2) THEN [num |-> NaN, den |-> NaN]
      ELSE [num |-> l1 + 5000000, den |-> l2 + 5000000]

\* contrastRatio: the fraction (lighter + 0.05) / (darker + 0.05)
contrastRatio(rgb1, rgb2) ==
  LET l1 == relativeLuminance(rgb1.r, rgb1.g, rgb1.b)
      l2 == relativeLuminance(rgb2.r, rgb2.g, rgb2.b)
      lighter == MathMax(l1, l2)
      darker == MathMin(l1, l2)
  IN  IF IsNaN(lighter) THEN [num |-> NaN, den |-> NaN]
      ELSE [num |-> lighter + 5000000, den |-> darker + 5000000]

\* ratio >= halves / 2 (every comparison with NaN is false)
RatioAtLeast(ratio, halves) ==
  /\ ~IsNaN(ratio.num)
  /\ IF ratio.den > 0 THEN 2 * ratio.num >= halves * ratio.den
     ELSE IF ratio.den < 0 THEN 2 * ratio.num <= halves * ratio.den
     ELSE ratio.num > 0

\* ratio.toFixed(1), as a number of tenths
toFixed1(ratio) ==
  IF IsNaN(ratio.num) THEN NaN
  ELSE 10 * (ratio.num \div ratio.den)
       + (10 * (ratio.num % ratio.den) + ratio.den \div 2) \div ratio.den

white == RGB(255, 255, 255)

black == RGB(0, 0, 0)

\* updateWcagBadge with the AA branch left out: below 7 the badge is FAIL
updateWcagBadgeAAAOnly(ratio) ==
  IF RatioAtLeast(ratio, 14) THEN "AAA"
  ELSE "FAIL"

\* updateWcagBadge: the badge text of a ratio
updateWcagBadge(ratio) ==
  IF RatioAtLeast(ratio, 14) THEN "AAA"
  ELSE IF RatioAtLeast(ratio, 9) THEN "AA"
  ELSE "FAIL"


(***************************************************************************)
(* ColorPicker of src/script.js: the object and its DOM elements           *)
(*                                                                         *)
(* picker is the ColorPicker with the values its elements hold:            *)
(*   currentColor, currentAlpha (in 1/100), isDragging,                    *)
(*   hexInput, rgbInputs, hslInputs   the text of the input fields,        *)
(*   hueSlider                        the value of the range input, taken  *)
(*                                    to run from 0 to 360,                *)
(*   colorSwatch                      the rgba() background of the swatch, *)
(*   whiteRatio, blackRatio           the ratios shown, in tenths,         *)
(*   whiteWcag, blackWcag             the badges shown.                    *)
(* The canvas gradient and the cursor position are functions of the hue,   *)
(* saturation and lightness written to the fields and are left out.        *)
(***************************************************************************)
VARIABLES picker

varsA == <<picker>>

\* hueSlider.value = v on a range input: a value that is no number is
\* replaced by the default, the middle of the range
RangeValue(v) == IF IsNaN(v) THEN 180 ELSE MathMax(0, MathMin(360, v))

\* updateContrastInfo
updateContrastInfo(p) ==
  LET whiteContrast == contrastRatio(p.currentColor, white)
      blackContrast == contrastRatio(p.currentColor, black)
  IN  [p EXCEPT !.whiteRatio = toFixed1(whiteContrast),
                !.blackRatio = toFixed1(blackContrast),
                !.whiteWcag = updateWcagBadge(whiteContrast),
                !.blackWcag = updateWcagBadge(blackContrast)]

\* updateColor(updateHex, updateRgb, updateHsl)
updateColor(p, updateHex, updateRgb, updateHsl) ==
  LET r == p.currentColor.r
      g == p.currentColor.g
      b == p.currentColor.b
      hex == rgbToHex(r, g, b)
      hsl == rgbToHsl(r, g, b)
  IN  updateContrastInfo(
        [p EXCEPT
           !.colorSwatch = [r |-> r, g |-> g, b |-> b, a |-> p.currentAlpha],
           !.hexInput = IF updateHex THEN hex ELSE @,
           !.rgbInputs = IF updateRgb
                         THEN RGB(NumToText(r), NumToText(g), NumToText(b))
                         ELSE @,
           !.hslInputs = IF updateHsl
                         THEN HSL(NumToText(hsl.h), NumToText(hsl.s), NumToText(hsl.l))
                         ELSE @,
           !.hueSlider = RangeValue(hsl.h)])

\* handleFieldDrag(e): the pointer at (x, y), in 1/100 of the field's width
\* and height from its top left corner
handleFieldDrag(p, x, y) ==
  IF ~p.isDragging THEN p
  ELSE
    LET saturation == MathMax(0, MathMin(100, x))
        lightness == 100 - MathMax(0, MathMin(100, y))
        hue == p.hueSlider
    IN  updateColor([p EXCEPT !.currentColor = hslToRgb(hue, saturation, lightness)],
                    TRUE, TRUE, TRUE)

\* startFieldDrag(e)
startFieldDrag(p, x, y) == handleFieldDrag([p EXCEPT !.isDragging = TRUE], x, y)

\* stopFieldDrag()
stopFieldDrag(p) == [p EXCEPT !.isDragging = FALSE]

\* handleFieldKeydown(e)
handleFieldKeydown(p, key, shiftKey) ==
  LET step == IF shiftKey THEN 10 ELSE 1
      saturation0 == parseInt(p.hslInputs.s)
      lightness0 == parseInt(p.hslInputs.l)
      minus(v) == IF IsNaN(v) THEN NaN ELSE MathMax(0, v - step)
      plus(v) == IF IsNaN(v) THEN NaN ELSE MathMin(100, v + step)
      saturation == CASE key = "ArrowLeft" -> minus(saturation0)
                      [] key = "ArrowRight" -> plus(saturation0)
                      [] OTHER -> saturation0
      lightness == CASE key = "ArrowUp" -> plus(lightness0)
                     [] key = "ArrowDown" -> minus(lightness0)
                     [] OTHER -> lightness0
      hue == p.hueSlider
  IN  IF key \notin {"ArrowLeft", "ArrowRight", "ArrowUp", "ArrowDown"} THEN p
      ELSE updateColor([p EXCEPT !.currentColor = hslToRgb(hue, saturation, lightness)],
                       TRUE, TRUE, TRUE)

\* handleHueChange()
handleHueChange(p) ==
  LET hue == p.hueSlider
      saturation == parseInt(p.hslInputs.s)
      lightness == parseInt(p.hslInputs.l)
  IN  updateColor([p EXCEPT !.currentColor = hslToRgb(hue, saturation, lightness)],
                  TRUE, TRUE, TRUE)

\* handleAlphaChange(), the slider holding alpha
handleAlphaChange(p, alpha) ==
  updateColor([p EXCEPT !.currentAlpha = alpha], TRUE, TRUE, TRUE)

\* handleHexChange()
handleHexChange(p) ==
  LET rgb == hexToRgb(p.hexInput)
  IN  IF rgb # null
      THEN updateColor([p EXCEPT !.currentColor = rgb], FALSE, TRUE, TRUE)
      ELSE p

\* handleRgbChange()
handleRgbChange(p) ==
  LET r == OrZero(parseInt(p.rgbInputs.r))
      g == OrZero(parseInt(p.rgbInputs.g))
      b == OrZero(parseInt(p.rgbInputs.b))
  IN  updateColor([p EXCEPT !.currentColor = RGB(r, g, b)], TRUE, FALSE, TRUE)

\* handleHslChange()
handleHslChange(p) ==
  LET h == OrZero(parseInt(p.hslInputs.h))
      s == OrZero(parseInt(p.hslInputs.s))
      l == OrZero(parseInt(p.hslInputs.l))
  IN  updateColor([p EXCEPT !.currentColor = hslToRgb(h, s, l)], TRUE, TRUE, FALSE)

\* the ColorPicker the constructor leaves
constructor ==
  updateColor([currentColor |-> RGB(79, 70, 229),
               currentAlpha |-> 100,
               isDragging |-> FALSE,
               hexInput |-> <<>>,
               rgbInputs |-> RGB(<<>>, <<>>, <<>>),
               hslInputs |-> HSL(<<>>, <<>>, <<>>),
               hueSlider |-> 180,
               colorSwatch |-> [r |-> 0, g |-> 0, b |-> 0, a |-> 0],
               whiteRatio |-> 0,
               blackRatio |-> 0,
               whiteWcag |-> "",
               blackWcag |-> ""],
              TRUE, TRUE, TRUE)

(***************************************************************************)
(* What the user does to the page of src/script.js.  A text or slider      *)
(* event is the user's change of the element followed by the handler.      *)
(***************************************************************************)
\* what the user types into the hex field
HexTexts ==
  { <<"#", "f", "f", "0", "0", "0", "0">>,
    <<"4", "F", "4", "6", "E", "5">>,
    <<"#", "1", "2">> }

\* what the user types into one of the R, G, B fields
RgbTexts == { <<>>, <<"2", "5", "6">>, <<"1", "2">> }

\* what the user types into one of the H, S, L fields
HslTexts == { <<"a", "b", "c">>, <<"1", "0", "1">>, <<"1", "2">> }

\* where the pointer is, in 1/100 of the field from its top left corner
PointerPositions == { <<0, 50>>, <<100, 50>>, <<130, 120>> }

\* where the user puts the hue slider, and the alpha slider (in 1/100)
HueValues == {0, 120, 300}

AlphaValues == {0, 50}

ArrowKeys == {"ArrowLeft", "ArrowRight", "ArrowUp", "ArrowDown"}

StartEvents == {"mousedown", "touchstart"}

MoveEvents == {"mousemove", "touchmove"}

EndEvents == {"mouseup", "touchend"}

\* the events that end a drag, the pointer leaving the window among them
TerminalEvents == EndEvents \cup {"pointerleave"}

\* input on the hue slider put at hue
hueInput(p, hue) == handleHueChange([p EXCEPT !.hueSlider = hue])

\* input on the hex field after text is typed into it
hexInput(p, text) == handleHexChange([p EXCEPT !.hexInput = text])

\* input on the R, G or B field ch after text is typed into it
rgbInput(p, ch, text) == handleRgbChange([p EXCEPT !.rgbInputs[ch] = text])

\* input on the H, S or L field ch after text is typed into it
hslInput(p, ch, text) == handleHslChange([p EXCEPT !.hslInputs[ch] = text])

(***************************************************************************)
(* ColorPicker of src/unnamed/part_000: currentColor is {h, s, l, a}.      *)
(* Its hslToRgb, rgbToHsl, hexToRgb, getLuminance and getContrastRatio are *)
(* line for line those of ColorUtils above and are modelled by them.       *)
(*                                                                         *)
(* pickerB is that ColorPicker with the values its elements hold:          *)
(*   currentColor (a in 1/100), isDragging,                                *)
(*   hexInput, rgbInput, hslInput   the text of the three input fields,    *)
(*   colorPreview                   the hsla() background of the preview,  *)
(*   blackRatio, whiteRatio         the text formatRatio wrote: the ratio  *)
(*                                  in tenths and the level after it.      *)
(* The handles and the gradients are functions of currentColor and are     *)
(* left out.                                                               *)
(***************************************************************************)
VARIABLES pickerB

varsB == <<pickerB>>

\* the pieces of text between the separators sep
RECURSIVE Split(_, _)
Split(text, sep) ==
  IF \E i \in 1..Len(text) : text[i] = sep
  THEN LET i == CHOOSE k \in 1..Len(text) :
                  text[k] = sep /\ \A j \in 1..(k - 1) : text[j] # sep
       IN  <<SubSeq(text, 1, i - 1)>> \o Split(Drop(text, i + 1), sep)
  ELSE <<text>>

\* parseFloat(text) for text that holds no fraction and no exponent
parseFloat(text) == parseInt(text)

\* x.toString(16) for an integer x
IntToHex(x) == IF x < 0 THEN <<"-">> \o NatToHex(0 - x) ELSE NatToHex(x)

\* rgbToHex of part_000: no clamp, a channel of one digit is padded
rgbToHexB(rgb) ==
  LET hex(x) == IF Len(IntToHex(x)) = 1 THEN <<"0">> \o IntToHex(x) ELSE IntToHex(x)
  IN  <<"#">> \o hex(rgb.r) \o hex(rgb.g) \o hex(rgb.b)

\* formatRatio of updateContrastTests
formatRatio(ratio) ==
  [ratio |-> toFixed1(ratio),
   level |-> IF RatioAtLeast(ratio, 14) THEN "AAA"
             ELSE IF RatioAtLeast(ratio, 9) THEN "AA"
             ELSE IF RatioAtLeast(ratio, 6) THEN "AA Large"
             ELSE "Fail"]

\* updateDisplays()
updateDisplays(p) ==
  LET c == p.currentColor
      rgb == hslToRgb(c.h, c.s, c.l)
      hex == rgbToHexB(rgb)
  IN  [p EXCEPT
         !.colorPreview = c,
         !.hexInput = hex,
         !.rgbInput = NumToText(rgb.r) \o <<",", " ">> \o NumToText(rgb.g)
                      \o <<",", " ">> \o NumToText(rgb.b),
         !.hslInput = NumToText(c.h) \o <<",", " ">> \o NumToText(c.s)
                      \o <<"%", ",", " ">> \o NumToText(c.l) \o <<"%">>]

\* updateContrastTests()
updateContrastTests(p) ==
  LET c == p.currentColor
      rgb == hslToRgb(c.h, c.s, c.l)
  IN  [p EXCEPT !.blackRatio = formatRatio(contrastRatio(rgb, black)),
                !.whiteRatio = formatRatio(contrastRatio(rgb, white))]

\* updateAll()
updateAll(p) == updateContrastTests(updateDisplays(p))

\* updateColorFromArea(e): the pointer at (x, y), in 1/100 of the area
updateColorFromArea(p, x, y) ==
  updateAll([p EXCEPT !.currentColor.s = MathMax(0, MathMin(100, x)),
                      !.currentColor.l = 100 - MathMax(0, MathMin(100, y))])

\* updateHueFromSlider(e): the pointer at x, in 1/360 of the slider
updateHueFromSlider(p, x) ==
  updateAll([p EXCEPT !.currentColor.h = MathMax(0, MathMin(360, x))])

\* updateOpacityFromSlider(e): the pointer at x, in 1/100 of the slider
updateOpacityFromSlider(p, x) ==
  updateAll([p EXCEPT !.currentColor.a = MathMax(0, MathMin(100, x))])

\* handleColorAreaMouseDown, handleHueSliderMouseDown, handleOpacitySliderMouseDown
handleColorAreaMouseDown(p, x, y) ==
  updateColorFromArea([p EXCEPT !.isDragging = TRUE], x, y)

handleHueSliderMouseDown(p, x) ==
  updateHueFromSlider([p EXCEPT !.isDragging = TRUE], x)

handleOpacitySliderMouseDown(p, x) ==
  updateOpacityFromSlider([p EXCEPT !.isDragging = TRUE], x)

\* handleColorAreaMouseMove, handleHueSliderMouseMove, handleOpacitySliderMouseMove
handleColorAreaMouseMove(p, x, y) ==
  IF p.isDragging THEN updateColorFromArea(p, x, y) ELSE p

handleHueSliderMouseMove(p, x) ==
  IF p.isDragging THEN updateHueFromSlider(p, x) ELSE p

handleOpacitySliderMouseMove(p, x) ==
  IF p.isDragging THEN updateOpacityFromSlider(p, x) ELSE p

\* handleHexInput()
handleHexInput(p) ==
  LET rgb == hexToRgb(p.hexInput)
      hsl == rgbToHsl(rgb.r, rgb.g, rgb.b)
  IN  IF rgb # null
      THEN updateDisplays([p EXCEPT !.currentColor.h = hsl.h,
                                    !.currentColor.s = hsl.s,
                                    !.currentColor.l = hsl.l])
      ELSE p

\* handleRgbInput()
handleRgbInput(p) ==
  LET parts == Split(p.rgbInput, ",")
      values == [i \in 1..Len(parts) |-> parseInt(parts[i])]
      hsl == rgbToHsl(values[1], values[2], values[3])
  IN  IF Len(values) = 3
         /\ \A i \in 1..3 : ~IsNaN(values[i]) /\ values[i] >= 0 /\ values[i] <= 255
      THEN updateDisplays([p EXCEPT !.currentColor.h = hsl.h,
                                    !.currentColor.s = hsl.s,
                                    !.currentColor.l = hsl.l])
      ELSE p

\* handleHslInput()
handleHslInput(p) ==
  LET parts == Split(p.hslInput, ",")
      values == [i \in 1..Len(parts) |-> parseFloat(parts[i])]
  IN  IF Len(values) = 3 /\ \A i \in 1..3 : ~IsNaN(values[i])
      THEN updateDisplays([p EXCEPT !.currentColor.h = values[1],
                                    !.currentColor.s = values[2],
                                    !.currentColor.l = values[3]])
      ELSE p

\* the ColorPicker the constructor of part_000 leaves
constructorB ==
  updateAll([currentColor |-> [h |-> 0, s |-> 70, l |-> 40, a |-> 100],
             isDragging |-> FALSE,
             hexInput |-> <<>>,
             rgbInput |-> <<>>,
             hslInput |-> <<>>,
             colorPreview |-> [h |-> 0, s |-> 0, l |-> 0, a |-> 0],
             blackRatio |-> [ratio |-> 0, level |-> ""],
             whiteRatio |-> [ratio |-> 0, level |-> ""]])

\* what the user types into the hex, the RGB and the HSL field of part_000
HexTextsB ==
  { <<"#", "F", "F", "0", "0", "0", "0">>,
    <<"#", "1", "2">> }

RgbTextsB ==
  { <<"2", "5", "5", ",", " ", "0", ",", " ", "0">>,
    <<"3", "0", "0", ",", " ", "0", ",", " ", "0">>,
    <<"1", "2", ",", "a", "b", "c", ",", "3">> }

HslTextsB ==
  { <<"1", "2", "0", ",", " ", "5", "0", "%", ",", " ", "5", "0", "%">>,
    <<"4", "0", "0", ",", " ", "1", "0", "1", "%", ",", " ", "5", "0", "%">>,
    <<"1", ",", "2">> }

\* where the pointer is on the hue slider (in 1/360 of it, from its left
\* end) and on the opacity slider (in 1/100 of it)
HuePositionsB == {0, 120, 400}

OpacityPositionsB == {0, 50}

(***************************************************************************)
(* throttle(func, delay) of src/script.js, as it wraps the handler of one  *)
(* text field.  now is Date.now(); timeoutId is the timer that is pending, *)
(* with its deadline and the args its callback holds, or none; typed       *)
(* counts the input events, each of which is a change of the field's text  *)
(* and a call of the throttled function with that event as args; the       *)
(* wrapped handler reads the field when it runs, and executions lists its  *)
(* runs: the time, the text it read (as the number of the input event that *)
(* typed it), whether the timer ran it, and the args it was applied to (as *)
(* the number of the call they came with).  A timer fires at its deadline  *)
(* or at any time after it.                                                *)
(***************************************************************************)
VARIABLES now, lastExecTime, timeoutId, typed, executions

varsT == <<now, lastExecTime, timeoutId, typed, executions>>

\* the delay setupEventListeners passes to throttle
delay == 100

none == [none |-> TRUE]

\* Date.now() when the page is loaded, and how far the clock runs after it
PageLoadTime == 1000

MaxElapsed == 200

MaxInputs == 3

\* the steps the clock advances by
TickSteps == {10, 50}

\* one run of the wrapped handler
Execution(text, byTimer, args) ==
  [at |-> now, text |-> text, byTimer |-> byTimer, args |-> args]

\* a throttle that sets no timer: a call within the delay is dropped
throttleDropping(currentTime, args) ==
  IF currentTime - lastExecTime > delay
  THEN [run |-> TRUE, lastExecTime |-> currentTime, timeoutId |-> timeoutId]
  ELSE [run |-> FALSE, lastExecTime |-> lastExecTime, timeoutId |-> timeoutId]

\* the function throttle returns, called with args at currentTime: whether
\* it runs func now, and the lastExecTime and the timeoutId it leaves
throttle(currentTime, args) ==
  IF currentTime - lastExecTime > delay
  THEN [run |-> TRUE, lastExecTime |-> currentTime, timeoutId |-> timeoutId]
  ELSE [run |-> FALSE, lastExecTime |-> lastExecTime,
        timeoutId |-> [due |-> currentTime + (delay - (currentTime - lastExecTime)),
                       args |-> args]]

(***************************************************************************)
(* Palettes and the eyedropper of src/script.js.                           *)
(*                                                                         *)
(* page holds what the picker and its page keep beside the colour:         *)
(*   savedPalettes     this.savedPalettes: an array of palettes or the     *)
(*                     element with the id savedPalettes,                  *)
(*   localStorage      the item colorPickerPalettes: null, or the value    *)
(*                     the JSON text stored there denotes,                 *)
(*   paletteNameInput  the text of the name field,                         *)
(*   toast             the toast shown last,                               *)
(*   thrown            the exception that left the handler run last.       *)
(* A JSON text is modelled by the value it denotes.  The list rendered     *)
(* into the page is left out, but not the exception rendering throws.      *)
(***************************************************************************)
VARIABLES page

\* a JavaScript array, and a DOM element
Array(items) == [array |-> items]

HTMLElement(id) == [element |-> id]

IsArray(v) == "array" \in DOMAIN v

\* a % n of JavaScript on integers: the sign of a, NaN on NaN
JsMod(a, n) ==
  IF IsNaN(a) THEN NaN ELSE IF a >= 0 THEN a % n ELSE 0 - ((0 - a) % n)

JsAdd(a, b) == IF IsNaN(a) THEN NaN ELSE a + b

\* generateHarmonies with h - 30 and h - 15 reduced as they are, without + 360
generateHarmoniesSigned(hsl, type) ==
  LET h == hsl.h
      hues ==
        CASE type = "complementary" -> <<h, JsMod(JsAdd(h, 180), 360)>>
          [] type = "analogous" ->
               <<JsMod(JsAdd(h, -30), 360), JsMod(JsAdd(h, -15), 360), h,
                 JsMod(JsAdd(h, 15), 360), JsMod(JsAdd(h, 30), 360)>>
          [] type = "triadic" ->
               <<h, JsMod(JsAdd(h, 120), 360), JsMod(JsAdd(h, 240), 360)>>
          [] type = "tetradic" ->
               <<h, JsMod(JsAdd(h, 90), 360), JsMod(JsAdd(h, 180), 360),
                 JsMod(JsAdd(h, 270), 360)>>
          [] OTHER -> <<>>
      member(hue) ==
        LET rgb == IF IsNaN(hue) THEN RGB(NaN, NaN, NaN)
                   ELSE hslToRgb(hue, hsl.s, hsl.l)
        IN  [hex |-> rgbToHex(rgb.r, rgb.g, rgb.b),
             rgb |-> rgb,
             hsl |-> HSL(hue, hsl.s, hsl.l)]
  IN  [i \in 1..Len(hues) |-> member(hues[i])]

\* generateHarmonies(hsl, type): the members' hsl, rgb and hex
generateHarmonies(hsl, type) ==
  LET h == hsl.h
      hues ==
        CASE type = "complementary" -> <<h, JsMod(JsAdd(h, 180), 360)>>
          [] type = "analogous" ->
               <<JsMod(JsAdd(h, 330), 360), JsMod(JsAdd(h, 345), 360), h,
                 JsMod(JsAdd(h, 15), 360), JsMod(JsAdd(h, 30), 360)>>
          [] type = "triadic" ->
               <<h, JsMod(JsAdd(h, 120), 360), JsMod(JsAdd(h, 240), 360)>>
          [] type = "tetradic" ->
               <<h, JsMod(JsAdd(h, 90), 360), JsMod(JsAdd(h, 180), 360),
                 JsMod(JsAdd(h, 270), 360)>>
          [] OTHER -> <<>>
      member(hue) ==
        LET rgb == IF IsNaN(hue) THEN RGB(NaN, NaN, NaN)
                   ELSE hslToRgb(hue, hsl.s, hsl.l)
        IN  [hex |-> rgbToHex(rgb.r, rgb.g, rgb.b),
             rgb |-> rgb,
             hsl |-> HSL(hue, hsl.s, hsl.l)]
  IN  [i \in 1..Len(hues) |-> member(hues[i])]

\* text.trim()
RECURSIVE TrimEnd(_)
TrimEnd(text) ==
  IF Len(text) > 0 /\ IsSpace(text[Len(text)])
  THEN TrimEnd(SubSeq(text, 1, Len(text) - 1))
  ELSE text

trim(text) == TrimEnd(Drop(text, SkipSpace(text, 1)))

\* showToast(message, type); detail is the text put into the message
showToast(message, detail, type) ==
  [message |-> message, detail |-> detail, type |-> type]

\* JSON.stringify(value): an array gives its list, an element gives {}
JSONstringify(v) == IF IsArray(v) THEN [json |-> v.array] ELSE [json |-> <<>>, object |-> TRUE]

\* loadPalettes(): the array the stored text denotes, [] for none
loadPalettes(storage) ==
  IF storage = null \/ "object" \in DOMAIN storage THEN Array(<<>>)
  ELSE Array(storage.json)

\* renderSavedPalettes() throws a TypeError: savedPalettes has no map, or
\* an entry has no colors to map
renderSavedPalettesThrows(pg) ==
  \/ ~IsArray(pg.savedPalettes)
  \/ \E i \in 1..Len(pg.savedPalettes.array) :
       "colors" \notin DOMAIN pg.savedPalettes.array[i]

noToast == [message |-> "", detail |-> <<>>, type |-> ""]

\* savePalettes(): localStorage.setItem('colorPickerPalettes', ...)
savePalettes(pg) == [pg EXCEPT !.localStorage = JSONstringify(pg.savedPalettes)]

\* what a handler leaves when an exception ends it at this point
Throw(pg, name) == [pg EXCEPT !.thrown = name]

\* savePalette() without the check of the name
savePaletteUnchecked(p, pg, time) ==
  LET name == trim(pg.paletteNameInput)
      c == p.currentColor
      hsl == rgbToHsl(c.r, c.g, c.b)
      harmonies == generateHarmonies(hsl, "analogous")
      palette == [id |-> NatToText(time),
                  name |-> name,
                  colors |-> [i \in 1..Len(harmonies) |-> harmonies[i].hex],
                  created |-> time]
      start == [pg EXCEPT !.thrown = "none"]
  IN  IF ~IsArray(pg.savedPalettes)
      THEN Throw(start, "TypeError")
      ELSE LET pushed == savePalettes(
                 [start EXCEPT
                    !.savedPalettes = Array(Append(pg.savedPalettes.array, palette))])
           IN  IF renderSavedPalettesThrows(pushed)
               THEN Throw(pushed, "TypeError")
               ELSE [pushed EXCEPT
                       !.paletteNameInput = <<>>,
                       !.toast = showToast("Palette saved", name, "success")]

\* savePalette() at the instant time on the picker p
savePalette(p, pg, time) ==
  LET name == trim(pg.paletteNameInput)
      c == p.currentColor
      hsl == rgbToHsl(c.r, c.g, c.b)
      harmonies == generateHarmonies(hsl, "analogous")
      palette == [id |-> NatToText(time),
                  name |-> name,
                  colors |-> [i \in 1..Len(harmonies) |-> harmonies[i].hex],
                  created |-> time]
      start == [pg EXCEPT !.thrown = "none"]
  IN  IF name = <<>>
      THEN [start EXCEPT
              !.toast = showToast("Please enter a palette name", <<>>, "error")]
      ELSE IF ~IsArray(pg.savedPalettes)
      THEN Throw(start, "TypeError")
      ELSE LET pushed == savePalettes(
                 [start EXCEPT
                    !.savedPalettes = Array(Append(pg.savedPalettes.array, palette))])
           IN  IF renderSavedPalettesThrows(pushed)
               THEN Throw(pushed, "TypeError")
               ELSE [pushed EXCEPT
                       !.paletteNameInput = <<>>,
                       !.toast = showToast("Palette saved", name, "success")]

\* findIndex(p => p.id === id): 0 stands for -1
RECURSIVE findIndex(_, _, _)
findIndex(items, id, i) ==
  IF i > Len(items) THEN 0
  ELSE IF "id" \in DOMAIN items[i] /\ items[i].id = id THEN i
  ELSE findIndex(items, id, i + 1)

\* splice(index, 1)
splice(items, index) ==
  SubSeq(items, 1, index - 1) \o SubSeq(items, index + 1, Len(items))

\* deletePalette(id)
deletePalette(pg, id) ==
  LET start == [pg EXCEPT !.thrown = "none"]
  IN  IF ~IsArray(pg.savedPalettes)
      THEN Throw(start, "TypeError")
      ELSE LET items == pg.savedPalettes.array
               paletteIndex == findIndex(items, id, 1)
               spliced == savePalettes(
                 [start EXCEPT
                    !.savedPalettes = Array(splice(items, paletteIndex))])
           IN  IF paletteIndex = 0 THEN start
               ELSE IF renderSavedPalettesThrows(spliced)
               THEN Throw(spliced, "TypeError")
               ELSE [spliced EXCEPT
                       !.toast = showToast("Deleted palette",
                           IF "name" \in DOMAIN items[paletteIndex]
                           THEN items[paletteIndex].name ELSE <<>>,
                           "success")]

\* a file's text: one JSON.parse rejects, one that denotes an array, or one
\* that denotes another value
Unparsable == [kind |-> "unparsable"]

JsonArray(items) == [kind |-> "array", items |-> items]

JsonObject == [kind |-> "object"]

\* handleImportPalette(e) without its try and catch
handleImportPaletteUncaught(pg, file) ==
  LET start == [pg EXCEPT !.thrown = "none"]
  IN  IF file.kind = "unparsable"
      THEN Throw(start, "SyntaxError")
      ELSE IF file.kind # "array"
      THEN [start EXCEPT
              !.toast = showToast("Invalid palette file format", <<>>, "error")]
      ELSE IF ~IsArray(pg.savedPalettes)
      THEN Throw(start, "TypeError")
      ELSE LET merged == savePalettes(
                 [start EXCEPT
                    !.savedPalettes = Array(pg.savedPalettes.array \o file.items)])
           IN  IF renderSavedPalettesThrows(merged)
               THEN Throw(merged, "TypeError")
               ELSE [merged EXCEPT
                       !.toast = showToast("Imported palette(s)",
                                           NatToText(Len(file.items)), "success")]

\* handleImportPalette(e) with the reader's onload, for a chosen file
handleImportPalette(pg, file) ==
  LET start == [pg EXCEPT !.thrown = "none"]
      failed == showToast("Failed to parse palette file", <<>>, "error")
  IN  IF file.kind = "unparsable"
      THEN [start EXCEPT !.toast = failed]
      ELSE IF file.kind # "array"
      THEN [start EXCEPT
              !.toast = showToast("Invalid palette file format", <<>>, "error")]
      ELSE IF ~IsArray(pg.savedPalettes)
      THEN [start EXCEPT !.toast = failed]
      ELSE LET merged == savePalettes(
                 [start EXCEPT
                    !.savedPalettes = Array(pg.savedPalettes.array \o file.items)])
           IN  IF renderSavedPalettesThrows(merged)
               THEN [merged EXCEPT !.toast = failed]
               ELSE [merged EXCEPT
                       !.toast = showToast("Imported palette(s)",
                                           NatToText(Len(file.items)), "success")]

\* what eyeDropper.open() gives: a colour text, or a rejection with the
\* name of its error; Unsupported stands for a window without EyeDropper
Picked(text) == [kind |-> "picked", sRGBHex |-> text]

Rejected(name) == [kind |-> "rejected", name |-> name]

Unsupported == [kind |-> "unsupported"]

\* handleEyeDropper() with the outcome of open(): the picker and the page
handleEyeDropper(p, pg, outcome) ==
  LET start == [pg EXCEPT !.thrown = "none"]
      rgb == hexToRgb(outcome.sRGBHex)
  IN  IF outcome.kind = "unsupported"
      THEN [picker |-> p,
            page |-> [start EXCEPT
              !.toast = showToast("EyeDropper not supported", <<>>, "error")]]
      ELSE IF outcome.kind = "rejected"
      THEN [picker |-> p,
            page |-> IF outcome.name # "AbortError"
                     THEN [start EXCEPT
                       !.toast = showToast("Failed to pick color", <<>>, "error")]
                     ELSE start]
      ELSE IF rgb # null
      THEN [picker |-> updateColor([p EXCEPT !.currentColor = rgb],
                                   TRUE, TRUE, TRUE),
            page |-> [start EXCEPT
              !.toast = showToast("Picked color", outcome.sRGBHex, "success")]]
      ELSE [picker |-> p, page |-> start]

\* the page after new ColorPicker(): initializeElements() has put the
\* element in place of the array loadPalettes() gave, and
\* renderSavedPalettes() has ended the constructor with a TypeError
constructorPage ==
  LET loaded == [savedPalettes |-> loadPalettes(null),
                 localStorage |-> null,
                 paletteNameInput |-> <<>>,
                 toast |-> noToast,
                 thrown |-> "none"]
      initialized == [loaded EXCEPT
                        !.savedPalettes = HTMLElement("savedPalettes")]
  IN  IF renderSavedPalettesThrows(initialized)
      THEN Throw(initialized, "TypeError")
      ELSE initialized

(***************************************************************************)
(* Palettes, harmonies and the screen picker of src/unnamed/part_000.      *)
(*                                                                         *)
(* pageB holds savedPalettes, the item colorPalettes of localStorage,      *)
(* the name field, the type of the harmony button marked active ("" for    *)
(* none), the text of the last alert, the text logged last on the          *)
(* console, and the exception that left the handler run last.  A palette   *)
(* saved without an active harmony holds the object this.currentColor      *)
(* itself: CurrentColorRef stands for that object, and JSON.stringify      *)
(* writes the value it has then.                                           *)
(***************************************************************************)
VARIABLES pageB

varsP == <<page, pageB>>

\* generateColorHarmony(type)
generateColorHarmony(p, type) ==
  LET baseHue == p.currentColor.h
      hues ==
        CASE type = "complementary" ->
               <<baseHue, JsMod(JsAdd(baseHue, 180), 360)>>
          [] type = "analogous" ->
               <<JsMod(JsAdd(baseHue, 330), 360), baseHue,
                 JsMod(JsAdd(baseHue, 30), 360)>>
          [] type = "triadic" ->
               <<baseHue, JsMod(JsAdd(baseHue, 120), 360),
                 JsMod(JsAdd(baseHue, 240), 360)>>
          [] type = "tetradic" ->
               <<baseHue, JsMod(JsAdd(baseHue, 90), 360),
                 JsMod(JsAdd(baseHue, 180), 360),
                 JsMod(JsAdd(baseHue, 270), 360)>>
          [] OTHER -> <<>>
  IN  [i \in 1..Len(hues) |->
         [h |-> hues[i], s |-> p.currentColor.s, l |-> p.currentColor.l]]

\* showColorHarmony(type): the clicked button becomes the active one
showColorHarmony(pg, type) == [pg EXCEPT !.activeHarmony = type, !.thrown = "none"]

CurrentColorRef == [ref |-> "currentColor"]

\* JSON.stringify(this.savedPalettes) of part_000
JSONstringifyB(v, p) ==
  IF ~IsArray(v) THEN [json |-> <<>>, object |-> TRUE]
  ELSE [json |->
         [i \in 1..Len(v.array) |->
            IF "colors" \in DOMAIN v.array[i]
            THEN [v.array[i] EXCEPT
                    !.colors = [j \in 1..Len(@) |->
                                  IF @[j] = CurrentColorRef
                                  THEN p.currentColor ELSE @[j]]]
            ELSE v.array[i]]]

\* localStorage.setItem('colorPalettes', JSON.stringify(this.savedPalettes))
setItemB(pg, p) ==
  [pg EXCEPT !.localStorage = JSONstringifyB(pg.savedPalettes, p)]

\* renderSavedPalettes() of part_000 throws a TypeError: savedPalettes has
\* no forEach, or an entry has no colors
renderSavedPalettesThrowsB(pg) ==
  \/ ~IsArray(pg.savedPalettes)
  \/ \E i \in 1..Len(pg.savedPalettes.array) :
       "colors" \notin DOMAIN pg.savedPalettes.array[i]

\* savePalette() of part_000 at the instant time
savePaletteB(p, pg, time) ==
  LET name == trim(pg.paletteNameInput)
      palette == [name |-> name,
                  colors |-> IF pg.activeHarmony # ""
                             THEN generateColorHarmony(p, pg.activeHarmony)
                             ELSE <<CurrentColorRef>>,
                  timestamp |-> time]
      start == [pg EXCEPT !.thrown = "none"]
  IN  IF name = <<>>
      THEN [start EXCEPT !.alert = "Please enter a palette name"]
      ELSE IF ~IsArray(pg.savedPalettes)
      THEN Throw(start, "TypeError")
      ELSE LET pushed == [setItemB(
                 [start EXCEPT
                    !.savedPalettes = Array(Append(pg.savedPalettes.array, palette))],
                 p) EXCEPT !.paletteNameInput = <<>>]
           IN  IF renderSavedPalettesThrowsB(pushed)
               THEN Throw(pushed, "TypeError")
               ELSE pushed

\* deletePalette(index) of part_000, index counted from 0
deletePaletteB(p, pg, index) ==
  LET start == [pg EXCEPT !.thrown = "none"]
  IN  IF ~IsArray(pg.savedPalettes)
      THEN Throw(start, "TypeError")
      ELSE LET spliced == setItemB(
                 [start EXCEPT
                    !.savedPalettes = Array(splice(pg.savedPalettes.array, index + 1))],
                 p)
           IN  IF renderSavedPalettesThrowsB(spliced)
               THEN Throw(spliced, "TypeError")
               ELSE spliced

\* importPalettes() with the change of its input and the reader's onload
importPalettes(p, pg, file) ==
  LET start == [pg EXCEPT !.thrown = "none"]
  IN  IF file.kind = "unparsable"
      THEN [start EXCEPT !.alert = "Invalid file format"]
      ELSE IF file.kind # "array"
      THEN start
      ELSE IF ~IsArray(pg.savedPalettes)
      THEN [start EXCEPT !.alert = "Invalid file format"]
      ELSE LET merged == setItemB(
                 [start EXCEPT
                    !.savedPalettes = Array(pg.savedPalettes.array \o file.items)],
                 p)
           IN  IF renderSavedPalettesThrowsB(merged)
               THEN [merged EXCEPT !.alert = "Invalid file format"]
               ELSE [merged EXCEPT !.alert = "Palettes imported successfully!"]

\* pickFromScreen() with the outcome of open(): the picker and the page
pickFromScreen(p, pg, outcome) ==
  LET start == [pg EXCEPT !.thrown = "none"]
      rgb == hexToRgb(outcome.sRGBHex)
      hsl == rgbToHsl(rgb.r, rgb.g, rgb.b)
  IN  IF outcome.kind = "unsupported"
      THEN [picker |-> p,
            page |-> [start EXCEPT
              !.alert = "Eye Dropper API not supported in this browser"]]
      ELSE IF outcome.kind = "rejected"
      THEN [picker |-> p,
            page |-> [start EXCEPT !.console = "User cancelled color picking"]]
      ELSE IF rgb # null
      THEN [picker |-> updateAll([p EXCEPT !.currentColor.h = hsl.h,
                                           !.currentColor.s = hsl.s,
                                           !.currentColor.l = hsl.l]),
            page |-> start]
      ELSE [picker |-> p, page |-> start]

\* the page after new ColorPicker() of part_000: initializeElements() has
\* put the element in place of the parsed array, and renderSavedPalettes()
\* has ended the constructor with a TypeError
constructorPageB ==
  LET parsed == [savedPalettes |-> loadPalettes(null),
                 localStorage |-> null,
                 paletteNameInput |-> <<>>,
                 activeHarmony |-> "",
                 alert |-> "",
                 console |-> "",
                 thrown |-> "none"]
      initialized == [parsed EXCEPT
                        !.savedPalettes = HTMLElement("savedPalettes")]
  IN  IF renderSavedPalettesThrowsB(initialized)
      THEN Throw(initialized, "TypeError")
      ELSE initialized

(***************************************************************************)
(* The conversions and the contrast as functions.  fnCall holds the        *)
(* arguments of one call, the name of the function applied to them ("" as  *)
(* long as none is) and what it returned.  The arguments are chosen so     *)
(* that no intermediate value lies on a .5 tie, where a double may round   *)
(* to the other side than the exact value.                                 *)
(***************************************************************************)
VARIABLES fnCall

varsF == <<fnCall>>

\* no call: the pages
NoCall == [kind |-> "", fn |-> ""]

\* the channels, the colours of the pairs, the hues and the ratios drawn
Channels == {0, 1, 100, 255}

PairColours ==
  { RGB(0, 0, 0), RGB(255, 255, 255), RGB(0, 0, 100), RGB(255, 0, 1),
    RGB(100, 100, 100), RGB(79, 70, 229) }

Hues == {0, 120, 359}

Turns == {-1, 0, 1, 2}

BaseHues == {0, 14, 29, 180, 350, 359}

HarmonyKinds == {"complementary", "analogous", "triadic", "tetradic"}

Ratio(num, den) == [num |-> num, den |-> den]

\* the ratios around the thresholds, and the NaN that contrastRatio returns
\* for a colour whose channels are NaN
Ratios ==
  { Ratio(1, 1), Ratio(299, 100), Ratio(3, 1), Ratio(449, 100), Ratio(9, 2),
    Ratio(699, 100), Ratio(7, 1), Ratio(21, 1), Ratio(NaN, NaN) }

\* the arguments of a call
Arguments ==
  [kind : {"rgb"}, fn : {""}, r : Channels, g : Channels, b : Channels]
  \cup [kind : {"hsl"}, fn : {""}, h : Hues, s : {50, 100}, l : {25, 50},
        k : Turns]
  \cup [kind : {"harmony"}, fn : {""}, h : BaseHues, s : {50, 100}, l : {25},
        type : HarmonyKinds]
  \cup [kind : {"pair"}, fn : {""}, a : PairColours, b : PairColours]
  \cup [kind : {"ratio"}, fn : {""}, ratio : Ratios]

(***************************************************************************)
(* The events.  lastEvent names the event dispatched last, lastTyped what  *)
(* the user typed with it and into which field, nEdits counts the events   *)
(* so far, and dragOpen tells whether a start event has been dispatched    *)
(* with no terminal event after it.  A mouse event of part_000 names in    *)
(* lastTyped.field the control whose listener it ran, and dragOrigin is    *)
(* the control of the last mousedown while the button has not been         *)
(* released.                                                               *)
(***************************************************************************)
VARIABLES lastEvent, lastTyped, nEdits, dragOpen, dragOrigin

varsE == <<lastEvent, lastTyped, nEdits, dragOpen, dragOrigin>>

vars == <<varsA, varsB, varsT, varsE, varsP, varsF>>

NoText == [field |-> "", text |-> <<>>]

Typed(field, text) == [field |-> field, text |-> text]

\* a mouse event on a control
On(control) == [field |-> control, text |-> <<>>]

Event(type, text) ==
  /\ nEdits < MaxEdits
  /\ nEdits' = nEdits + 1
  /\ lastEvent' = type
  /\ lastTyped' = text
  /\ dragOpen' = IF type \in StartEvents THEN TRUE
                 ELSE IF type \in TerminalEvents THEN FALSE
                 ELSE dragOpen
  /\ dragOrigin' = IF type \in StartEvents THEN text.field
                   ELSE IF type \in EndEvents THEN ""
                   ELSE dragOrigin

\* the two pages after DOMContentLoaded
Loaded ==
  /\ picker = constructor
  /\ pickerB = constructorB
  /\ now = PageLoadTime
  /\ lastExecTime = 0
  /\ timeoutId = none
  /\ typed = 0
  /\ executions = <<>>
  /\ lastEvent = "DOMContentLoaded"
  /\ lastTyped = NoText
  /\ nEdits = 0
  /\ dragOpen = FALSE
  /\ dragOrigin = ""
  /\ page = constructorPage
  /\ pageB = constructorPageB

Init == Loaded /\ fnCall = NoCall

(***************************************************************************)
(* src/script.js: one action for each listener of setupEventListeners.  An *)
(* input event of a text field is taken with the run of its handler.       *)
(***************************************************************************)
Dispatch(type, text, p) ==
  /\ Event(type, text)
  /\ picker' = p
  /\ UNCHANGED <<varsB, varsT, varsP, varsF>>

\* mousedown, touchstart on the colour field
FieldStart ==
  \E type \in StartEvents, pos \in PointerPositions :
    Dispatch(type, NoText, startFieldDrag(picker, pos[1], pos[2]))

\* mousemove, touchmove on the document
DocumentMove ==
  \E type \in MoveEvents, pos \in PointerPositions :
    Dispatch(type, NoText, handleFieldDrag(picker, pos[1], pos[2]))

\* mouseup, touchend on the document
DocumentEnd ==
  \E type \in EndEvents : Dispatch(type, NoText, stopFieldDrag(picker))

\* the pointer leaves the window: no listener
PointerLeave == Dispatch("pointerleave", NoText, picker)

\* keydown on the colour field
FieldKeydown ==
  \E key \in ArrowKeys, shiftKey \in BOOLEAN :
    Dispatch("keydown", NoText, handleFieldKeydown(picker, key, shiftKey))

HueInput ==
  \E hue \in HueValues : Dispatch("hue", NoText, hueInput(picker, hue))

AlphaInput ==
  \E alpha \in AlphaValues :
    Dispatch("alpha", NoText, handleAlphaChange(picker, alpha))

HexInput ==
  \E text \in HexTexts :
    Dispatch("hex", Typed("hex", text), hexInput(picker, text))

RgbInput ==
  \E ch \in {"r", "g", "b"}, text \in RgbTexts :
    Dispatch("rgb", Typed(ch, text), rgbInput(picker, ch, text))

HslInput ==
  \E ch \in {"h", "s", "l"}, text \in HslTexts :
    Dispatch("hsl", Typed(ch, text), hslInput(picker, ch, text))

Next ==
  \/ FieldStart
  \/ DocumentMove
  \/ DocumentEnd
  \/ PointerLeave
  \/ FieldKeydown
  \/ HueInput
  \/ AlphaInput
  \/ HexInput
  \/ RgbInput
  \/ HslInput

Spec == Init /\ [][Next]_vars

(***************************************************************************)
(* src/unnamed/part_000: one action for each listener of                   *)
(* attachEventListeners that edits the colour.                             *)
(***************************************************************************)
DispatchB(type, text, p) ==
  /\ Event(type, text)
  /\ pickerB' = p
  /\ UNCHANGED <<varsA, varsT, varsP, varsF>>

AreaMouseDown ==
  \E pos \in PointerPositions :
    DispatchB("mousedown", On("colorArea"), handleColorAreaMouseDown(pickerB, pos[1], pos[2]))

AreaMouseMove ==
  \E pos \in PointerPositions :
    DispatchB("mousemove", On("colorArea"), handleColorAreaMouseMove(pickerB, pos[1], pos[2]))

HueMouseDown ==
  \E x \in HuePositionsB :
    DispatchB("mousedown", On("hueSlider"), handleHueSliderMouseDown(pickerB, x))

HueMouseMove ==
  \E x \in HuePositionsB :
    DispatchB("mousemove", On("hueSlider"), handleHueSliderMouseMove(pickerB, x))

OpacityMouseDown ==
  \E x \in OpacityPositionsB :
    DispatchB("mousedown", On("opacitySlider"), handleOpacitySliderMouseDown(pickerB, x))

OpacityMouseMove ==
  \E x \in OpacityPositionsB :
    DispatchB("mousemove", On("opacitySlider"), handleOpacitySliderMouseMove(pickerB, x))

\* mouseup on the document
DocumentMouseUp ==
  DispatchB("mouseup", NoText, [pickerB EXCEPT !.isDragging = FALSE])

\* the pointer leaves the window: no listener
PointerLeaveB == DispatchB("pointerleave", NoText, pickerB)

HexInputB ==
  \E text \in HexTextsB :
    DispatchB("hex", Typed("hexInput", text),
              handleHexInput([pickerB EXCEPT !.hexInput = text]))

RgbInputB ==
  \E text \in RgbTextsB :
    DispatchB("rgb", Typed("rgbInput", text),
              handleRgbInput([pickerB EXCEPT !.rgbInput = text]))

HslInputB ==
  \E text \in HslTextsB :
    DispatchB("hsl", Typed("hslInput", text),
              handleHslInput([pickerB EXCEPT !.hslInput = text]))

NextB ==
  \/ AreaMouseDown
  \/ AreaMouseMove
  \/ HueMouseDown
  \/ HueMouseMove
  \/ OpacityMouseDown
  \/ OpacityMouseMove
  \/ DocumentMouseUp
  \/ PointerLeaveB
  \/ HexInputB
  \/ RgbInputB
  \/ HslInputB

SpecB == Init /\ [][NextB]_vars

(***************************************************************************)
(* One throttled text field of src/script.js.                              *)
(***************************************************************************)
\* an input event: the text changes and the throttled function is called
ThrottledInput ==
  /\ typed < MaxInputs
  /\ typed' = typed + 1
  /\ LET call == throttle(now, typed + 1)
     IN  /\ lastExecTime' = call.lastExecTime
         /\ timeoutId' = call.timeoutId
         /\ executions' = IF call.run THEN Append(executions, Execution(typed + 1, FALSE, typed + 1))
                          ELSE executions
  /\ UNCHANGED <<now, varsA, varsB, varsE, varsP, varsF>>

\* the callback of setTimeout, at or after the deadline
TimerFire ==
  /\ timeoutId # none
  /\ now >= timeoutId.due
  /\ executions' = Append(executions, Execution(typed, TRUE, timeoutId.args))
  /\ lastExecTime' = now
  /\ timeoutId' = none
  /\ UNCHANGED <<now, typed, varsA, varsB, varsE, varsP, varsF>>

\* time passes: up to MaxElapsed, and up to the deadline of a pending timer
Tick ==
  /\ \/ now < PageLoadTime + MaxElapsed
     \/ timeoutId # none /\ now < timeoutId.due
  /\ \E d \in TickSteps : now' = now + d
  /\ UNCHANGED <<lastExecTime, timeoutId, typed, executions, varsA, varsB, varsE, varsP, varsF>>

NextT ==
  \/ ThrottledInput
  \/ TimerFire
  \/ Tick

\* timers fire and time passes
SpecT == Init /\ [][NextT]_vars /\ WF_vars(TimerFire) /\ WF_vars(Tick)

(***************************************************************************)
(* Palettes, eyedropper and hex field of both pages.  A file is taken with *)
(* the load of its text, a click on the eyedropper button with the         *)
(* settling of open(); the window has EyeDropper.  A Delete button is the  *)
(* only caller of deletePalette, and renderSavedPalettes() throws before   *)
(* it makes one: the delete actions are calls of the method on the picker  *)
(* the constructor has left.  Date.now() is now, and all the operations    *)
(* fall into the millisecond of the load.                                  *)
(***************************************************************************)
\* what the user types into the palette name field
PaletteNames == { <<" ", " ">>, <<" ", "A", " ">> }

\* a palette as savePalette() of script.js writes it, and one of part_000
ExportedPalette ==
  [id |-> NatToText(PageLoadTime),
   name |-> <<"B">>,
   colors |-> << <<"#", "0", "0", "0", "0", "0", "0">> >>,
   created |-> PageLoadTime]

ExportedPaletteB ==
  [name |-> <<"B">>,
   colors |-> << [h |-> 0, s |-> 70, l |-> 40, a |-> 100] >>,
   timestamp |-> PageLoadTime]

\* an array element that is no palette
NoPalette == [name |-> <<"B">>]

\* the files the user chooses for import
ImportFiles ==
  { Unparsable, JsonObject,
    JsonArray(<<ExportedPalette>>), JsonArray(<<ExportedPalette, NoPalette>>) }

ImportFilesB ==
  { Unparsable, JsonObject,
    JsonArray(<<ExportedPaletteB>>), JsonArray(<<ExportedPaletteB, NoPalette>>) }

\* how open() settles
EyeDropperOutcomes ==
  { Picked(<<"#", "0", "0", "f", "f", "0", "0">>),
    Picked(<<"r", "g", "b", "a", "(", "0", ",", " ", "0", ",", " ", "0",
             ",", " ", "0", ")">>),
    Rejected("AbortError"),
    Rejected("NotAllowedError") }

\* the ids and indexes of the Delete buttons clicked
DeleteIds == { NatToText(PageLoadTime) }

DeleteIndexes == { 0 }

\* the harmony buttons clicked
HarmonyTypes == { "analogous" }

PageStep(type, input, p, pg) ==
  /\ Event(type, input)
  /\ picker' = p
  /\ page' = pg
  /\ UNCHANGED <<varsB, varsT, pageB, varsF>>

PageStepB(type, input, p, pg) ==
  /\ Event(type, input)
  /\ pickerB' = p
  /\ pageB' = pg
  /\ UNCHANGED <<varsA, varsT, page, varsF>>

\* the user types a palette name
PaletteNameInput ==
  \E text \in PaletteNames :
    PageStep("paletteName", Typed("paletteName", text), picker,
             [page EXCEPT !.paletteNameInput = text])

\* click on savePaletteBtn
SavePaletteClick ==
  PageStep("savePalette", Typed("paletteName", page.paletteNameInput),
           picker, savePalette(picker, page, now))

\* deletePalette(id), the listener of a Delete button
DeletePaletteClick ==
  \E id \in DeleteIds :
    PageStep("deletePalette", Typed("id", id), picker, deletePalette(page, id))

\* change of importPaletteFile
ImportPaletteChange ==
  \E file \in ImportFiles :
    PageStep("importPalette", Typed("file", file), picker,
             handleImportPalette(page, file))

\* click on eyedropperBtn
EyeDropperClick ==
  \E outcome \in EyeDropperOutcomes :
    LET after == handleEyeDropper(picker, page, outcome)
    IN  PageStep("eyedropper", Typed("outcome", outcome),
                 after.picker, after.page)

\* the same of part_000
PaletteNameInputB ==
  \E text \in PaletteNames :
    PageStepB("paletteNameB", Typed("paletteName", text), pickerB,
              [pageB EXCEPT !.paletteNameInput = text])

HarmonyClickB ==
  \E type \in HarmonyTypes :
    PageStepB("harmonyB", Typed("type", type), pickerB,
              showColorHarmony(pageB, type))

SavePaletteClickB ==
  PageStepB("savePaletteB", Typed("paletteName", pageB.paletteNameInput),
            pickerB, savePaletteB(pickerB, pageB, now))

DeletePaletteClickB ==
  \E index \in DeleteIndexes :
    PageStepB("deletePaletteB", Typed("index", index), pickerB,
              deletePaletteB(pickerB, pageB, index))

ImportPalettesClickB ==
  \E file \in ImportFilesB :
    PageStepB("importPalettesB", Typed("file", file), pickerB,
              importPalettes(pickerB, pageB, file))

ScreenPickerClickB ==
  \E outcome \in EyeDropperOutcomes :
    LET after == pickFromScreen(pickerB, pageB, outcome)
    IN  PageStepB("screenPickerB", Typed("outcome", outcome),
                  after.picker, after.page)

NextP ==
  \/ PaletteNameInput
  \/ SavePaletteClick
  \/ DeletePaletteClick
  \/ ImportPaletteChange
  \/ EyeDropperClick
  \/ HexInput
  \/ PaletteNameInputB
  \/ HarmonyClickB
  \/ SavePaletteClickB
  \/ DeletePaletteClickB
  \/ ImportPalettesClickB
  \/ ScreenPickerClickB
  \/ HexInputB

SpecP == Init /\ [][NextP]_vars

(***************************************************************************)
(* The functions applied to drawn arguments: one action for each function  *)
(* or composition of functions a claim is about.                           *)
(***************************************************************************)
InitF == Loaded /\ fnCall \in Arguments

Apply(kind, fn, result) ==
  /\ fnCall.fn = ""
  /\ fnCall.kind = kind
  /\ fnCall' = [kind |-> kind, fn |-> fn, args |-> fnCall, result |-> result]
  /\ UNCHANGED <<varsA, varsB, varsT, varsE, varsP>>

\* hexToRgb(rgbToHex(r, g, b))
ApplyHexRoundTrip ==
  Apply("rgb", "hexToRgb(rgbToHex)",
        hexToRgb(rgbToHex(fnCall.r, fnCall.g, fnCall.b)))

\* rgbToHsl(r, g, b), of script.js and of part_000
ApplyRgbToHsl ==
  Apply("rgb", "rgbToHsl", rgbToHsl(fnCall.r, fnCall.g, fnCall.b))

\* hslToRgb(rgbToHsl(r, g, b))
ApplyHslRoundTrip ==
  Apply("rgb", "hslToRgb(rgbToHsl)",
        LET hsl == rgbToHsl(fnCall.r, fnCall.g, fnCall.b)
        IN  hslToRgb(hsl.h, hsl.s, hsl.l))

\* hslToRgb(h + 360 * k, s, l)
ApplyHslToRgb ==
  Apply("hsl", "hslToRgb",
        hslToRgb(fnCall.h + 360 * fnCall.k, fnCall.s, fnCall.l))

\* generateHarmonies(hsl, type)
ApplyGenerateHarmonies ==
  Apply("harmony", "generateHarmonies",
        generateHarmonies(HSL(fnCall.h, fnCall.s, fnCall.l), fnCall.type))

\* contrastRatio(a, b) and contrastRatio(b, a)
ApplyContrastRatio ==
  Apply("pair", "contrastRatio",
        [ab |-> contrastRatio(fnCall.a, fnCall.b),
         ba |-> contrastRatio(fnCall.b, fnCall.a)])

\* updateWcagBadge(element, ratio) and formatRatio(ratio)
ApplyWcagBadge ==
  Apply("ratio", "updateWcagBadge",
        [badge |-> updateWcagBadge(fnCall.ratio),
         level |-> formatRatio(fnCall.ratio).level])

NextF ==
  \/ ApplyHexRoundTrip
  \/ ApplyRgbToHsl
  \/ ApplyHslRoundTrip
  \/ ApplyHslToRgb
  \/ ApplyGenerateHarmonies
  \/ ApplyContrastRatio
  \/ ApplyWcagBadge

SpecF == InitF /\ [][NextF]_vars

(***************************************************************************)
(* The claims                                                              *)
(***************************************************************************)
\* parseInt(text) is a number from lo to hi
NumberIn(text, lo, hi) ==
  LET v == parseInt(text) IN ~IsNaN(v) /\ v >= lo /\ v <= hi

\* the R, G, B fields hold a colour; the H, S, L fields hold a colour
ValidRgbText(fields) == \A ch \in {"r", "g", "b"} : NumberIn(fields[ch], 0, 255)

ValidHslText(fields) ==
  /\ ~IsNaN(parseInt(fields.h))
  /\ NumberIn(fields.s, 0, 100)
  /\ NumberIn(fields.l, 0, 100)

\* what the page of src/script.js shows beside the text fields
Shown(p) ==
  <<p.hueSlider, p.colorSwatch, p.whiteRatio, p.blackRatio, p.whiteWcag, p.blackWcag>>

\* C1: in src/script.js, an RGB or HSL text edit whose fields do not hold a
\* valid colour (a field empty or not a number, an RGB channel outside
\* 0..255, saturation or lightness outside 0..100) fails: currentColor and
\* every displayed field other than the one typed into stay as they were.
C1_InvalidTextLeavesStateUnchanged ==
  [][ /\ (lastEvent' = "rgb" /\ ~ValidRgbText(picker'.rgbInputs))
           => /\ picker'.currentColor = picker.currentColor
              /\ picker'.hexInput = picker.hexInput
              /\ picker'.hslInputs = picker.hslInputs
              /\ Shown(picker') = Shown(picker)
      /\ (lastEvent' = "hsl" /\ ~ValidHslText(picker'.hslInputs))
           => /\ picker'.currentColor = picker.currentColor
              /\ picker'.hexInput = picker.hexInput
              /\ picker'.rgbInputs = picker.rgbInputs
              /\ Shown(picker') = Shown(picker) ]_vars

\* C2: in src/script.js, after any sequence of edits each of currentColor.r,
\* currentColor.g and currentColor.b is an integer from 0 to 255.
C2_ChannelsInRange ==
  \A ch \in {"r", "g", "b"} :
    ~IsNaN(picker.currentColor[ch]) /\ picker.currentColor[ch] \in 0..255

\* C3: in both implementations the contrast ratios and the WCAG levels shown
\* against white and against black are those of the colour that is current.
C3_ContrastOfCurrentColour ==
  /\ LET c == pickerB.currentColor
         rgb == hslToRgb(c.h, c.s, c.l)
     IN  /\ pickerB.whiteRatio = formatRatio(contrastRatio(rgb, white))
         /\ pickerB.blackRatio = formatRatio(contrastRatio(rgb, black))
  /\ LET whiteContrast == contrastRatio(picker.currentColor, white)
         blackContrast == contrastRatio(picker.currentColor, black)
     IN  /\ picker.whiteRatio = toFixed1(whiteContrast)
         /\ picker.blackRatio = toFixed1(blackContrast)
         /\ picker.whiteWcag = updateWcagBadge(whiteContrast)
         /\ picker.blackWcag = updateWcagBadge(blackContrast)

\* the last event of src/script.js was an edit that was accepted: a pointer
\* or keyboard edit, a slider edit, or a text edit whose fields hold a valid
\* colour
AfterAcceptedEdit ==
  \/ lastEvent \in StartEvents \cup {"keydown", "hue", "alpha"}
  \/ lastEvent \in MoveEvents /\ picker.isDragging
  \/ lastEvent = "hex" /\ hexToRgb(picker.hexInput) # null
  \/ lastEvent = "rgb" /\ ValidRgbText(picker.rgbInputs)
  \/ lastEvent = "hsl" /\ ValidHslText(picker.hslInputs)

\* C4: in src/script.js, after every accepted edit the hex field parses to
\* currentColor, the R, G, B fields equal its channels and the H, S, L
\* fields equal rgbToHsl(currentColor).
C4_TextViewsDenoteCurrentColor ==
  AfterAcceptedEdit =>
    LET c == picker.currentColor
        hsl == rgbToHsl(c.r, c.g, c.b)
    IN  /\ hexToRgb(picker.hexInput) = c
        /\ \A ch \in {"r", "g", "b"} : parseInt(picker.rgbInputs[ch]) = c[ch]
        /\ \A ch \in {"h", "s", "l"} : parseInt(picker.hslInputs[ch]) = hsl[ch]

\* handleRgbInput and handleHslInput of part_000 take the text
AcceptedRgbTextB(text) ==
  LET parts == Split(text, ",")
  IN  Len(parts) = 3 /\ \A i \in 1..3 : NumberIn(parts[i], 0, 255)

AcceptedHslTextB(text) ==
  LET parts == Split(text, ",")
  IN  Len(parts) = 3 /\ \A i \in 1..3 : ~IsNaN(parseFloat(parts[i]))

\* C5: in both implementations an edit typed into the hex, the RGB or the
\* HSL text field leaves the text of that field as it was typed and writes
\* the values derived from the new colour to the other two.
C5_OriginatingFieldNotRewritten ==
  /\ (lastEvent = "hex" /\ lastTyped.field = "hexInput"
      /\ hexToRgb(lastTyped.text) # null)
       => /\ pickerB.hexInput = lastTyped.text
          /\ pickerB.rgbInput = updateDisplays(pickerB).rgbInput
          /\ pickerB.hslInput = updateDisplays(pickerB).hslInput
  /\ (lastEvent = "rgb" /\ lastTyped.field = "rgbInput"
      /\ AcceptedRgbTextB(lastTyped.text))
       => /\ pickerB.rgbInput = lastTyped.text
          /\ pickerB.hexInput = updateDisplays(pickerB).hexInput
          /\ pickerB.hslInput = updateDisplays(pickerB).hslInput
  /\ (lastEvent = "hsl" /\ lastTyped.field = "hslInput"
      /\ AcceptedHslTextB(lastTyped.text))
       => /\ pickerB.hslInput = lastTyped.text
          /\ pickerB.hexInput = updateDisplays(pickerB).hexInput
          /\ pickerB.rgbInput = updateDisplays(pickerB).rgbInput
  /\ (lastEvent = "hex" /\ lastTyped.field = "hex"
      /\ hexToRgb(lastTyped.text) # null)
       => /\ picker.hexInput = lastTyped.text
          /\ picker.rgbInputs = updateColor(picker, TRUE, TRUE, TRUE).rgbInputs
          /\ picker.hslInputs = updateColor(picker, TRUE, TRUE, TRUE).hslInputs
  /\ (lastEvent = "rgb" /\ lastTyped.field \in {"r", "g", "b"})
       => /\ picker.rgbInputs[lastTyped.field] = lastTyped.text
          /\ picker.hexInput = updateColor(picker, TRUE, TRUE, TRUE).hexInput
          /\ picker.hslInputs = updateColor(picker, TRUE, TRUE, TRUE).hslInputs
  /\ (lastEvent = "hsl" /\ lastTyped.field \in {"h", "s", "l"})
       => /\ picker.hslInputs[lastTyped.field] = lastTyped.text
          /\ picker.hexInput = updateColor(picker, TRUE, TRUE, TRUE).hexInput
          /\ picker.rgbInputs = updateColor(picker, TRUE, TRUE, TRUE).rgbInputs

\* a colour with no hue: saturation 0, or lightness 0 or 100
Achromatic(c) == c.r = c.g /\ c.g = c.b

\* C6: in src/script.js, when the hue slider holds h, 0 < h < 360, and a
\* pointer or keyboard edit takes a chromatic colour to an achromatic one,
\* the hue slider still holds h: the hue is not reset.
C6_HueSurvivesAchromatic ==
  [][ ( /\ lastEvent' \in StartEvents \cup MoveEvents \cup {"keydown"}
        /\ picker.hueSlider > 0 /\ picker.hueSlider < 360
        /\ ~Achromatic(picker.currentColor)
        /\ Achromatic(picker'.currentColor) )
      => picker'.hueSlider = picker.hueSlider ]_vars

\* C7: in src/script.js, for the hue slider, the alpha slider and the hex,
\* RGB and HSL text fields, and every value, the edit made a second time
\* leaves currentColor, currentAlpha and every displayed field as the first
\* left them.
C7_SameEditTwice ==
  /\ \A hue \in HueValues :
       LET p1 == hueInput(picker, hue) IN hueInput(p1, hue) = p1
  /\ \A alpha \in AlphaValues :
       LET p1 == handleAlphaChange(picker, alpha)
       IN  handleAlphaChange(p1, alpha) = p1
  /\ \A text \in HexTexts :
       LET p1 == hexInput(picker, text) IN hexInput(p1, text) = p1
  /\ \A ch \in {"r", "g", "b"}, text \in RgbTexts :
       LET p1 == rgbInput(picker, ch, text) IN rgbInput(p1, ch, text) = p1
  /\ \A ch \in {"h", "s", "l"}, text \in HslTexts :
       LET p1 == hslInput(picker, ch, text) IN hslInput(p1, ch, text) = p1

\* C8: a drag is opened only by a start event, every terminal event (mouse
\* release, touch end, the pointer leaving the window) leaves isDragging
\* false, and with no drag open a move event does not change the colour.
C8_DragClosedByEveryEndEvent ==
  [][ /\ lastEvent' \in TerminalEvents
           => ~picker'.isDragging /\ ~pickerB'.isDragging
      /\ (~dragOpen /\ lastEvent' \in MoveEvents)
           => /\ picker'.currentColor = picker.currentColor
              /\ pickerB'.currentColor = pickerB.currentColor
      /\ (picker'.isDragging /\ ~picker.isDragging) => lastEvent' \in StartEvents
      /\ (pickerB'.isDragging /\ ~pickerB.isDragging) => lastEvent' \in StartEvents
    ]_vars

\* C9: any two consecutive runs of the handler throttle wraps are at least
\* delay apart, whenever the input events come and whenever at or after its
\* deadline a timer fires.
C9_RunsAtLeastDelayApart ==
  \A i \in 2..Len(executions) : executions[i].at - executions[i - 1].at >= delay

\* the text the wrapped handler read when it ran last
Applied == IF executions = <<>> THEN 0 ELSE executions[Len(executions)].text

\* C10: throttle defers and never drops the last edit of a burst: whenever
\* the text typed last has not been read by the wrapped handler, the handler
\* runs later and reads it.
C10_FinalEditApplied == (Applied # typed) ~> (Applied = typed)

\* the last of several edits was deferred and the timer has applied it
C10_DeferredEditApplied ==
  /\ typed >= 2
  /\ executions # <<>>
  /\ executions[Len(executions)].byTimer
  /\ Applied = typed

(***************************************************************************)
(* The claims on palettes, the eyedropper and the hex field                *)
(***************************************************************************)
\* the value is a list of palettes whose ids are there and pairwise distinct
DistinctIds(v) ==
  /\ IsArray(v)
  /\ \A i \in 1..Len(v.array) :
       /\ "id" \in DOMAIN v.array[i]
       /\ \A j \in 1..Len(v.array) : i # j => v.array[i].id # v.array[j].id

PaletteMutations == { "savePalette", "deletePalette", "importPalette" }

BlankName(pg) == trim(pg.paletteNameInput) = <<>>

\* C12: in both implementations savePalette with a name that is empty or
\* only white space fails: it shows the request for a name, throws nothing
\* and leaves the collection and the stored value as they were
C12_BlankNameSaveFails ==
  [][/\ (lastEvent' = "savePalette" /\ BlankName(page))
          => /\ page'.savedPalettes = page.savedPalettes
             /\ page'.localStorage = page.localStorage
             /\ page'.thrown = "none"
             /\ page'.toast = showToast("Please enter a palette name", <<>>, "error")
     /\ (lastEvent' = "savePaletteB" /\ BlankName(pageB))
          => /\ pageB'.savedPalettes = pageB.savedPalettes
             /\ pageB'.localStorage = pageB.localStorage
             /\ pageB'.thrown = "none"
             /\ pageB'.alert = "Please enter a palette name"]_vars

\* both pages have refused a save under a blank name, one of only white space
C12_BlankNameRefused ==
  /\ lastEvent = "savePaletteB"
  /\ pageB.paletteNameInput = <<" ", " ">>
  /\ pageB.alert = "Please enter a palette name"
  /\ page.paletteNameInput = <<>>
  /\ page.toast.message = "Please enter a palette name"

\* the palettes of a collection, none when it is no list
Palettes(v) == IF IsArray(v) THEN v.array ELSE <<>>

\* C13: in src/script.js savePalette with a non-blank name appends exactly
\* one palette, with the trimmed name and a creation time, after the
\* palettes there were, which stay as they are, and stores the new list
C13_SaveAppendsOnePalette ==
  [][(lastEvent' = "savePalette" /\ ~BlankName(page))
       => LET before == Palettes(page.savedPalettes)
              after == Palettes(page'.savedPalettes)
          IN  /\ IsArray(page'.savedPalettes)
              /\ Len(after) = Len(before) + 1
              /\ SubSeq(after, 1, Len(before)) = before
              /\ after[Len(after)].name = trim(page.paletteNameInput)
              /\ "created" \in DOMAIN after[Len(after)]
              /\ page'.localStorage = [json |-> after]]_vars

\* no palette of the collection has the id
AbsentId(v, id) ==
  \A i \in 1..Len(Palettes(v)) :
    "id" \in DOMAIN Palettes(v)[i] => Palettes(v)[i].id # id

C15_BadPayloadImportFails ==
  [][/\ (lastEvent' = "importPalette" /\ lastTyped'.text.kind # "array")
          => /\ page'.savedPalettes = page.savedPalettes
             /\ page'.localStorage = page.localStorage
             /\ page'.thrown = "none"
             /\ page'.toast.type = "error"
     /\ (lastEvent' = "importPalettesB" /\ lastTyped'.text.kind # "array")
          => /\ pageB'.savedPalettes = pageB.savedPalettes
             /\ pageB'.localStorage = pageB.localStorage
             /\ pageB'.thrown = "none"
             /\ pageB'.alert # "Palettes imported successfully!"]_vars

\* script.js has refused a text that denotes an object, part_000 one that
\* does not parse
C15_BadPayloadRefused ==
  /\ lastEvent = "importPalettesB"
  /\ lastTyped.text = Unparsable
  /\ pageB.alert = "Invalid file format"
  /\ page.toast.message = "Invalid palette file format"

\* a record with id, name, a colors list of hex strings and a created time
PaletteShaped(item) ==
  /\ DOMAIN item = {"id", "name", "colors", "created"}
  /\ \A i \in 1..Len(item.colors) : hexToRgb(item.colors[i]) # null

MutationAsked ==
  \/ lastEvent' = "savePalette" /\ ~BlankName(page)
  \/ lastEvent' = "deletePalette"
       /\ ~AbsentId(page.savedPalettes, lastTyped'.text)
  \/ lastEvent' = "importPalette" /\ lastTyped'.text.kind = "array"
       /\ \A i \in 1..Len(lastTyped'.text.items) :
            PaletteShaped(lastTyped'.text.items[i])

C18_CancelDistinguishedFromFailure ==
  [][/\ (lastEvent' = "eyedropper" /\ lastTyped'.text.kind = "rejected")
          => /\ picker' = picker
             /\ IF lastTyped'.text.name = "AbortError"
                THEN page'.toast = page.toast
                ELSE page'.toast.type = "error"
     /\ (lastEvent' = "screenPickerB" /\ lastTyped'.text.kind = "rejected")
          => /\ pickerB' = pickerB
             /\ IF lastTyped'.text.name = "AbortError"
                THEN pageB'.alert = pageB.alert
                ELSE /\ pageB'.console # "User cancelled color picking"
                     /\ pageB'.alert # ""]_vars

\* the palettes of part_000 with the colours they hold now
PalettesB(pg, p) == JSONstringifyB(pg.savedPalettes, p).json

PaletteMutationsB == { "savePaletteB", "deletePaletteB", "importPalettesB" }

HexColourText(text) ==
  \/ Len(text) = 6 /\ \A i \in 1..6 : IsHexDigit(text[i])
  \/ Len(text) = 7 /\ text[1] = "#" /\ \A i \in 2..7 : IsHexDigit(text[i])

\* C20: in both implementations a hex text typed into the hex field, or
\* given by the eyedropper, that is not an optional # and exactly 6
\* hexadecimal digits is ignored: hexToRgb gives null, nothing is thrown,
\* and the colour and all the fields but the edited one stay as they were
C20_InvalidHexIgnored ==
  [][/\ (lastEvent' = "hex" /\ lastTyped'.field = "hex"
         /\ ~HexColourText(lastTyped'.text))
          => /\ hexToRgb(lastTyped'.text) = null
             /\ picker' = [picker EXCEPT !.hexInput = lastTyped'.text]
     /\ (lastEvent' = "hex" /\ lastTyped'.field = "hexInput"
         /\ ~HexColourText(lastTyped'.text))
          => /\ hexToRgb(lastTyped'.text) = null
             /\ pickerB' = [pickerB EXCEPT !.hexInput = lastTyped'.text]
     /\ (lastEvent' = "eyedropper" /\ lastTyped'.text.kind = "picked"
         /\ ~HexColourText(lastTyped'.text.sRGBHex))
          => /\ hexToRgb(lastTyped'.text.sRGBHex) = null
             /\ picker' = picker
             /\ page'.thrown = "none"
             /\ page'.toast = page.toast
     /\ (lastEvent' = "screenPickerB" /\ lastTyped'.text.kind = "picked"
         /\ ~HexColourText(lastTyped'.text.sRGBHex))
          => /\ hexToRgb(lastTyped'.text.sRGBHex) = null
             /\ pickerB' = pickerB
             /\ pageB'.thrown = "none"
             /\ pageB'.alert = pageB.alert]_vars

\* both hex fields hold a text of two digits and the eyedropper has given a
\* text that is no hex colour: the colours are those of the load
C20_InvalidHexSeen ==
  /\ lastEvent = "eyedropper"
  /\ lastTyped.text.kind = "picked"
  /\ ~HexColourText(lastTyped.text.sRGBHex)
  /\ picker.hexInput = <<"#", "1", "2">>
  /\ pickerB.hexInput = <<"#", "1", "2">>
  /\ picker.currentColor = constructor.currentColor
  /\ pickerB.currentColor = constructorB.currentColor

(***************************************************************************)
(* The claims on the conversions, the harmonies and the contrast           *)
(***************************************************************************)
\* the colour a call of kind rgb was made with
ArgumentRgb == RGB(fnCall.args.r, fnCall.args.g, fnCall.args.b)

\* C21: for integers r, g, b from 0 to 255, hexToRgb(rgbToHex(r, g, b)) is
\* the colour (r, g, b)
C21_HexRoundTrip ==
  fnCall.fn = "hexToRgb(rgbToHex)" => fnCall.result = ArgumentRgb

\* the round trip of a colour with channels of one and of two hex digits
C21_HexRoundTripDone ==
  /\ fnCall.fn = "hexToRgb(rgbToHex)"
  /\ ArgumentRgb = RGB(1, 100, 255)
  /\ fnCall.result = RGB(1, 100, 255)

Abs(x) == IF x < 0 THEN 0 - x ELSE x

\* C22: for integers r, g, b from 0 to 255, hslToRgb of the rounded
\* rgbToHsl(r, g, b) differs from r, g and b by at most 1 in each channel
C22_HslRoundTripWithinOne ==
  fnCall.fn = "hslToRgb(rgbToHsl)"
    => /\ Abs(fnCall.result.r - fnCall.args.r) <= 1
       /\ Abs(fnCall.result.g - fnCall.args.g) <= 1
       /\ Abs(fnCall.result.b - fnCall.args.b) <= 1

\* C23: for integers r, g, b from 0 to 255, rgbToHsl gives integers h from
\* 0 to 359, s and l from 0 to 100, and h = 0 and s = 0 when r = g = b
C23_HslInRange ==
  fnCall.fn = "rgbToHsl"
    => /\ fnCall.result.h \in 0..359
       /\ fnCall.result.s \in 0..100
       /\ fnCall.result.l \in 0..100
       /\ (fnCall.args.r = fnCall.args.g /\ fnCall.args.g = fnCall.args.b)
            => fnCall.result.h = 0 /\ fnCall.result.s = 0

\* C24: hslToRgb takes the hue modulo 360: for a hue h, whole turns k and
\* s, l from 0 to 100, hslToRgb(h + 360 * k, s, l) is hslToRgb(h, s, l)
C24_HueTakenModulo360 ==
  fnCall.fn = "hslToRgb"
    => fnCall.result = hslToRgb(fnCall.args.h, fnCall.args.s, fnCall.args.l)

\* The offsets, in degrees, of a harmony's members from the base hue
Offsets(type) ==
  CASE type = "complementary" -> <<0, 180>>
    [] type = "triadic" -> <<0, 120, 240>>
    [] type = "tetradic" -> <<0, 90, 180, 270>>
    [] type = "analogous" -> <<-30, -15, 0, 15, 30>>

\* C25: for a base hue in 0..359 generateHarmonies returns, in order, one
\* member per offset of the kind (complementary 0, 180; triadic 0, 120, 240;
\* tetradic 0, 90, 180, 270; analogous -30, -15, 0, 15, 30), each hue reduced
\* modulo 360 into 0..359, each member with the base's saturation and
\* lightness.
C25_HarmonyHues ==
  fnCall.fn = "generateHarmonies" =>
    LET a == fnCall.args
        offsets == Offsets(a.type)
        members == fnCall.result
    IN  /\ Len(members) = Len(offsets)
        /\ \A i \in 1..Len(offsets) :
             /\ members[i].hsl.h = (a.h + offsets[i]) % 360
             /\ members[i].hsl.h \in 0..359
             /\ members[i].hsl.s = a.s
             /\ members[i].hsl.l = a.l

\* An analogous harmony whose first two hues wrap below zero
C25_AnalogousWrapped ==
  /\ fnCall.fn = "generateHarmonies"
  /\ fnCall.args.type = "analogous"
  /\ fnCall.args.h = 14
  /\ fnCall.result[1].hsl.h = 344
  /\ fnCall.result[2].hsl.h = 359

\* C26: contrastRatio is symmetric: for colours a and b with integer
\* channels in 0..255, contrastRatio(a, b) and contrastRatio(b, a) are the
\* same fraction.
C26_ContrastSymmetric ==
  fnCall.fn = "contrastRatio" => fnCall.result.ab = fnCall.result.ba

\* The ratio of a darker colour against a lighter one, taken both ways
C26_DarkerFirst ==
  /\ fnCall.fn = "contrastRatio"
  /\ fnCall.args.a = RGB(0, 0, 100)
  /\ fnCall.args.b = RGB(255, 0, 1)
  /\ fnCall.result.ab.num > fnCall.result.ab.den
  /\ fnCall.result.ba = fnCall.result.ab

\* C27: contrastRatio(c, c) is 1 for every colour c with integer channels in
\* 0..255, contrastRatio(white, black) is 21, and the ratio of every pair of
\* such colours lies in [1, 21].
C27_ContrastRange ==
  fnCall.fn = "contrastRatio" =>
    LET a == fnCall.args.a
        b == fnCall.args.b
        ratio == fnCall.result.ab
    IN  /\ a = b => ratio.num = ratio.den
        /\ (a = white /\ b = black) => ratio.num = 21 * ratio.den
        /\ ratio.den > 0
        /\ ratio.den <= ratio.num
        /\ (ratio.num + 20) \div 21 <= ratio.den

\* White against black, at the top of the range
C27_WhiteOnBlack ==
  /\ fnCall.fn = "contrastRatio"
  /\ fnCall.args.a = white
  /\ fnCall.args.b = black
  /\ fnCall.result.ab = Ratio(105000000, 5000000)

\* ratio < halves / 2 (every comparison with NaN is false)
RatioBelow(ratio, halves) ==
  /\ ~IsNaN(ratio.num)
  /\ ratio.den > 0
  /\ 2 * ratio.num < halves * ratio.den

\* C28: the badge is a function of the ratio alone: AAA exactly when
\* ratio >= 7, AA exactly when 4.5 <= ratio < 7, FAIL exactly when
\* ratio < 4.5; the level of part_000 is AA Large exactly when
\* 3 <= ratio < 4.5.
C28_BadgeByThresholds ==
  fnCall.fn = "updateWcagBadge" =>
    LET ratio == fnCall.args.ratio
        badge == fnCall.result.badge
        level == fnCall.result.level
    IN  /\ badge = "AAA" <=> RatioAtLeast(ratio, 14)
        /\ badge = "AA" <=> (RatioAtLeast(ratio, 9) /\ RatioBelow(ratio, 14))
        /\ badge = "FAIL" <=> RatioBelow(ratio, 9)
        /\ level = "AA Large" <=> (RatioAtLeast(ratio, 6) /\ RatioBelow(ratio, 9))

\* C29: in src/script.js, once the constructor has run, savedPalettes is
\* the sequence of palettes loaded from storage (empty for an empty
\* storage), and the constructor's renderSavedPalettes and every later
\* savePalette, deletePalette and import work on a sequence and end
\* without a TypeError
C29_SavedPalettesIsLoadedSequence ==
  /\ IsArray(page.savedPalettes)
  /\ page.thrown # "TypeError"
  /\ lastEvent = "DOMContentLoaded"
       => page.savedPalettes = loadPalettes(page.localStorage)

\* C30: in src/unnamed/part_000 each control's drag is independent: while
\* the button is held after a mousedown on the colour area a mouse move
\* changes only saturation and lightness, after one on the hue slider only
\* the hue, after one on the opacity slider only alpha, whichever control
\* the pointer moves over
C30_DragsIndependent ==
  [][(lastEvent' = "mousemove" /\ dragOrigin # "")
       => LET before == pickerB.currentColor
              after == pickerB'.currentColor
          IN  /\ dragOrigin = "colorArea"
                   => after.h = before.h /\ after.a = before.a
              /\ dragOrigin = "hueSlider"
                   => after.s = before.s /\ after.l = before.l
                      /\ after.a = before.a
              /\ dragOrigin = "opacitySlider"
                   => after.h = before.h /\ after.s = before.s
                      /\ after.l = before.l]_vars

(***************************************************************************)
(* The claims on the order of the throttled runs, the keyboard steps, the  *)
(* range of the HSL colour and the two badges                              *)
(***************************************************************************)
\* C31: the runs of a throttled handler never go backwards in call order:
\* no run has the args of a call earlier than the call of a run before it,
\* so whenever the last call of a burst has been executed no later run has
\* the args of another call.
C31_RunsInCallOrder ==
  \A i \in 1..Len(executions) :
    \A j \in i..Len(executions) : executions[i].args <= executions[j].args

\* the saturation and the lightness the H/S/L fields display
DisplayedS(p) == parseInt(p.hslInputs.s)

DisplayedL(p) == parseInt(p.hslInputs.l)

\* C32: in src/script.js keyboard stepping on the colour field makes
\* progress: from a state whose displayed lightness is strictly between 0
\* and 100, an ArrowRight press leaves a displayed saturation strictly above
\* the one before unless that was 100, and an ArrowLeft press one strictly
\* below unless that was 0.
C32_KeyboardSteppingProgresses ==
  [][(lastEvent' = "keydown" /\ DisplayedL(picker) \in 1..99
      /\ DisplayedS(picker) \in 0..100)
       => \A shiftKey \in BOOLEAN :
            /\ (picker' = handleFieldKeydown(picker, "ArrowRight", shiftKey)
                /\ DisplayedS(picker) < 100)
                 => DisplayedS(picker') > DisplayedS(picker)
            /\ (picker' = handleFieldKeydown(picker, "ArrowLeft", shiftKey)
                /\ DisplayedS(picker) > 0)
                 => DisplayedS(picker') < DisplayedS(picker)]_vars

\* C33: in src/unnamed/part_000 the stored colour stays in range after any
\* sequence of edits: h in [0, 360], s and l in [0, 100], a in [0, 1] (here
\* in 1/100), and the hues of every harmony generated from it are
\* non-negative.
C33_StoredColourInRange ==
  LET c == pickerB.currentColor
  IN  /\ c.h >= 0 /\ c.h <= 360
      /\ c.s >= 0 /\ c.s <= 100
      /\ c.l >= 0 /\ c.l <= 100
      /\ c.a >= 0 /\ c.a <= 100
      /\ \A type \in HarmonyKinds :
           LET colors == generateColorHarmony(pickerB, type)
           IN  \A i \in 1..Len(colors) : colors[i].h >= 0

\* the channels are integers of 0..255
InRangeColour(c) == c.r \in 0..255 /\ c.g \in 0..255 /\ c.b \in 0..255

\* one of the two ratios of the colour is at least 4.5
OneRatioPasses(c) ==
  \/ RatioAtLeast(contrastRatio(c, white), 9)
  \/ RatioAtLeast(contrastRatio(c, black), 9)

\* the greys around the luminance at which the two ratios cross
CrossoverGreys == { RGB(v, v, v) : v \in 112..123 }

\* C34: for a colour with integer channels in 0..255 at least one of
\* contrastRatio(colour, white) and contrastRatio(colour, black) is at least
\* 4.5, and in every state with such a current colour the white badge and
\* the black badge are not both FAIL.
C34_OneBadgePasses ==
  /\ \A c \in CrossoverGreys : OneRatioPasses(c)
  /\ InRangeColour(picker.currentColor)
       => /\ OneRatioPasses(picker.currentColor)
          /\ ~(picker.whiteWcag = "FAIL" /\ picker.blackWcag = "FAIL")

\* pure red typed into the hex field: FAIL on white, AA on black
C34_RedFailsOnWhiteOnly ==
  /\ lastEvent = "hex"
  /\ picker.currentColor = RGB(255, 0, 0)
  /\ picker.whiteWcag = "FAIL"
  /\ picker.blackWcag = "AA"

=============================================================================
